---------------------------- MODULE Spec2Model ----------------------------
(***************************************************************************)
(* TravelAI backend: the SQLite-backed TTL cache (cache.service.js), the   *)
(* quota-limited SearchAPI adapter (search.service.js) and the             *)
(* recommendation pipeline (recommendations.controller.js).                *)
(***************************************************************************)
EXTENDS Integers, Sequences, FiniteSets, TLC

(***************************************************************************)
(* Bounds of the model.                                                    *)
(***************************************************************************)
\* the clock (whole seconds, Math.floor(Date.now() / 1000)) runs 0..MaxClock
MaxClock == 2
\* ttl arguments of setCache are drawn from 0..MaxTtl
MaxTtl == 1

VARIABLES
  cacheReady,   \* cache.service.js: let cacheReady
  booted,       \* index.js: initializeCache() has run
  cache,        \* the rows of table cache: [key, value, expires_at]
  now,          \* Math.floor(Date.now() / 1000)
  lastSet,      \* the latest setCache call, until another write to its key
  lastGet,      \* the latest getCached call, until the next write or second
  lastOp,       \* how the latest cache operation ended
  apiKey,       \* search.service.js: this.apiKey is set (isConfigured())
  remainingSearches, \* search.service.js: this.remainingSearches
  pc,           \* per request: idle, or awaiting axios.get for a cache key
  last,         \* the latest step of a search call: its key, outcome and result
  okCalls,      \* the number of axios.get calls that have resolved
  world,        \* the flight provider: its answer for each departure date
  service,      \* the adapter called: SearchApiService or AmadeusService
  rangeArgs,    \* searchFlightsInRange: startDate, endDate, tripDuration
  rangePc,      \* searchFlightsInRange: not called, called, in its loop, returned
  sampleDates,  \* searchFlightsInRange: const sampleDates
  allFlights,   \* searchFlightsInRange: const allFlights
  priceByDate,  \* searchFlightsInRange: const priceByDate
  rangeResult,  \* searchFlightsInRange: the value returned
  flightCalls,  \* the number of this.searchFlights calls of the loop
  req,          \* getRecommendations: req.body
  step,         \* getRecommendations: the await the handler is at
  flights,      \* getRecommendations: let flights
  hotels,       \* getRecommendations: let hotels
  smartQueries, \* getRecommendations: const smartQueries (their number)
  webSearchResults, \* getRecommendations: let webSearchResults
  analysis,     \* getRecommendations: let analysis, and how the LLM call ended
  response,     \* what the request was answered with
  outbound,     \* the number of requests sent to a provider or to the LLM
  clientId,     \* amadeus.service.js: config.amadeus.clientId and clientSecret are set
  locReq,       \* searchLocations: the GET /locations request and its answer
  planReq,      \* generatePlan: the POST /recommendations/plan request and its answer
  normRaw,      \* a response.data handed to normalizeFlightData or normalizeHotelData
  normRuns      \* what each normalisation call on it returned, in order

cacheVars == <<cacheReady, booted, cache, now, lastSet, lastGet, lastOp>>

searchVars == <<apiKey, remainingSearches, pc, last, okCalls>>

rangeVars == <<world, service, rangeArgs, rangePc, sampleDates, allFlights,
               priceByDate, rangeResult, flightCalls>>

recVars == <<req, step, flights, hotels, smartQueries, webSearchResults,
             analysis, response, outbound>>

requestVars == <<rangeVars, recVars>>

apiVars == <<clientId, locReq, planReq>>

normVars == <<normRaw, normRuns>>

vars == <<cacheReady, booted, cache, now, lastSet, lastGet, lastOp,
          apiKey, remainingSearches, pc, last, okCalls,
          world, service, rangeArgs, rangePc, sampleDates, allFlights,
          priceByDate, rangeResult, flightCalls,
          req, step, flights, hotels, smartQueries, webSearchResults,
          analysis, response, outbound,
          clientId, locReq, planReq, normRaw, normRuns>>

(***************************************************************************)
(* JavaScript values and their JSON text.                                  *)
(*                                                                         *)
(* A value is [kind, n]: object n, number n, the string whose characters   *)
(* are the decimal digits of n (n > 0, e.g. "1"), the string "abc"         *)
(* (kind "string", n = 0), or null.  A text (the TEXT column) is           *)
(* [form, kind, n]: form "json" is the JSON encoding of value [kind, n],   *)
(* form "raw" is a character sequence that is no JSON document.            *)
(***************************************************************************)
Null == [kind |-> "null", n |-> 0]

Obj(i) == [kind |-> "object", n |-> i]

Num(i) == [kind |-> "number", n |-> i]

Str(i) == [kind |-> "string", n |-> i]

Keys == {"k1", "k2"}

\* an object, a number, the string "1" and the string "abc"
Values == {Obj(1), Num(1), Str(1), Str(0)}

Ttls == 0..MaxTtl

\* JSON.stringify(value)
JSONstringify(v) == [form |-> "json", kind |-> v.kind, n |-> v.n]

\* the characters of a string value, as a text: digits are the JSON
\* encoding of a number, "abc" is no JSON document
StringChars(s) ==
  IF s.n > 0 THEN [form |-> "json", kind |-> "number", n |-> s.n]
  ELSE [form |-> "raw", kind |-> "string", n |-> 0]

\* the string value whose characters are text t (t not a quoted string)
StringOf(t) == IF t.form = "raw" THEN Str(0) ELSE Str(t.n)

\* typeof value === 'string' ? value : JSON.stringify(value)
ValueStr(v) == IF v.kind = "string" THEN StringChars(v) ELSE JSONstringify(v)

\* JSON.parse(text) succeeds
JSONparses(t) == t.form = "json"

\* JSON.parse(text)
JSONparse(t) == [kind |-> t.kind, n |-> t.n]

\* try { return JSON.parse(row.value) } catch { return row.value }
RowValue(t) == IF JSONparses(t) THEN JSONparse(t) ELSE StringOf(t)

\* JavaScript truthiness, as used by `if (cached)`
Truthy(v) ==
  CASE v.kind = "null" -> FALSE
    [] v.kind = "number" -> v.n # 0
    [] v.kind = "string" -> TRUE \* every string of the model is non-empty
    [] OTHER -> TRUE

(***************************************************************************)
(* cache.service.js                                                        *)
(***************************************************************************)
isCacheReady == cacheReady

\* SELECT value FROM cache WHERE key = ? AND expires_at > ?
SelectRows(rows, key, t) == {r \in rows : r.key = key /\ r.expires_at > t}

\* a plain INSERT into a table without the primary key: rows pile up
InsertOrReplace_Append(rows, row) == rows \cup {row}

\* INSERT OR REPLACE INTO cache (key, value, expires_at) VALUES (?, ?, ?)
\* with key the PRIMARY KEY of the table
InsertOrReplace(rows, row) == {r \in rows : r.key # row.key} \cup {row}

\* DELETE FROM cache WHERE key = ?
DeleteRows(rows, key) == {r \in rows : r.key # key}

\* a sweep that takes the entries of the coming second for expired
DeleteExpired_Early(rows, t) == {r \in rows : ~(r.expires_at < t + 2)}

\* DELETE FROM cache WHERE expires_at < ?
DeleteExpired(rows, t) == {r \in rows : ~(r.expires_at < t)}

\* the clock taken in milliseconds: Date.now() + ttl
ExpiresAt_Millis(t, ttl) == t * 1000 + ttl

\* expiresAt = Math.floor(Date.now() / 1000) + ttl
ExpiresAt(t, ttl) == t + ttl

\* the value getCached(key) returns; dbOk = FALSE: the store throws
getCachedResult(rows, ready, dbOk, key, t) ==
  IF ~ready \/ ~dbOk THEN Null
  ELSE LET sel == SelectRows(rows, key, t)
       IN  IF sel = {} THEN Null ELSE RowValue((CHOOSE r \in sel : TRUE).value)

\* INSERT OR IGNORE: a key that has a row keeps it
setCacheRows_Ignore(rows, ready, dbOk, key, value, ttl, t) ==
  IF ~ready \/ ~dbOk \/ (\E r \in rows : r.key = key) THEN rows
  ELSE rows \cup {[key |-> key, value |-> ValueStr(value),
                   expires_at |-> ExpiresAt(t, ttl)]}

\* the rows after setCache(key, value, ttl)
setCacheRows(rows, ready, dbOk, key, value, ttl, t) ==
  IF ~ready \/ ~dbOk THEN rows
  ELSE InsertOrReplace(rows,
         [key |-> key, value |-> ValueStr(value), expires_at |-> ExpiresAt(t, ttl)])

\* lastSet: the latest setCache call that wrote its row.  over: "same" or
\* "other" when the call replaced the row written by the setCache call before
\* it, of the same key, with the same or another value
NoSet ==
  [live |-> FALSE, key |-> "k1", value |-> Null, ttl |-> 0, at |-> 0, over |-> "none"]

NoGet == [called |-> FALSE, key |-> "k1", result |-> Null, ok |-> FALSE]

\* no cache operation has run yet
NoOp == "none"

\* a failure of the store thrown on to the caller
Outcome_Uncaught(ready, dbOk) ==
  IF ~ready THEN "noop" ELSE IF dbOk THEN "done" ELSE "threw"

\* how a cache operation ends: "noop" when the cache is not ready (the early
\* return), "done" when the statement ran, "failed" when the store threw and
\* the operation's catch logged it; "threw" would be an error reaching the
\* caller
Outcome(ready, dbOk) ==
  IF ~ready THEN "noop" ELSE IF dbOk THEN "done" ELSE "failed"

\* index.js: initializeDatabase(); initializeCache()
initializeCache(dbOk) ==
  /\ ~booted
  /\ booted' = TRUE
  /\ cacheReady' = dbOk
  /\ UNCHANGED <<cache, now, lastSet, lastGet, lastOp>>
  /\ UNCHANGED searchVars
  /\ UNCHANGED requestVars
  /\ UNCHANGED <<apiVars, normVars>>

getCached(key, dbOk) ==
  /\ booted
  /\ lastGet' = [called |-> TRUE, key |-> key,
                 result |-> getCachedResult(cache, cacheReady, dbOk, key, now),
                 ok |-> cacheReady /\ dbOk]
  /\ lastOp' = Outcome(cacheReady, dbOk)
  /\ UNCHANGED <<cacheReady, booted, cache, now, lastSet>>
  /\ UNCHANGED searchVars
  /\ UNCHANGED requestVars
  /\ UNCHANGED <<apiVars, normVars>>

setCache(key, value, ttl, dbOk) ==
  /\ booted
  /\ cache' = setCacheRows(cache, cacheReady, dbOk, key, value, ttl, now)
  /\ IF cacheReady /\ dbOk
     THEN /\ lastSet' =
               [live |-> TRUE, key |-> key, value |-> value, ttl |-> ttl, at |-> now,
                over |-> IF ~(lastSet.live /\ lastSet.key = key) THEN "none"
                         ELSE IF lastSet.value = value THEN "same" ELSE "other"]
          /\ lastGet' = NoGet
     ELSE UNCHANGED <<lastSet, lastGet>>
  /\ lastOp' = Outcome(cacheReady, dbOk)
  /\ UNCHANGED <<cacheReady, booted, now>>
  /\ UNCHANGED searchVars
  /\ UNCHANGED requestVars
  /\ UNCHANGED <<apiVars, normVars>>

deleteCache(key, dbOk) ==
  /\ booted
  /\ IF cacheReady /\ dbOk
     THEN /\ cache' = DeleteRows(cache, key)
          /\ lastSet' = IF lastSet.key = key THEN NoSet ELSE lastSet
          /\ lastGet' = NoGet
     ELSE UNCHANGED <<cache, lastSet, lastGet>>
  /\ lastOp' = Outcome(cacheReady, dbOk)
  /\ UNCHANGED <<cacheReady, booted, now>>
  /\ UNCHANGED searchVars
  /\ UNCHANGED requestVars
  /\ UNCHANGED <<apiVars, normVars>>

\* also the hourly timer: setInterval(() => { if (cacheReady) cleanupExpiredCache() })
cleanupExpiredCache(dbOk) ==
  /\ booted
  /\ cache' = IF cacheReady /\ dbOk THEN DeleteExpired(cache, now) ELSE cache
  /\ lastOp' = Outcome(cacheReady, dbOk)
  /\ UNCHANGED <<cacheReady, booted, now, lastSet, lastGet>>
  /\ UNCHANGED searchVars
  /\ UNCHANGED requestVars
  /\ UNCHANGED <<apiVars, normVars>>

clearAllCache(dbOk) ==
  /\ booted
  /\ IF cacheReady /\ dbOk
     THEN /\ cache' = {}
          /\ lastSet' = NoSet
          /\ lastGet' = NoGet
     ELSE UNCHANGED <<cache, lastSet, lastGet>>
  /\ lastOp' = Outcome(cacheReady, dbOk)
  /\ UNCHANGED <<cacheReady, booted, now>>
  /\ UNCHANGED searchVars
  /\ UNCHANGED requestVars
  /\ UNCHANGED <<apiVars, normVars>>

\* a second passes
Tick ==
  /\ now < MaxClock
  /\ now' = now + 1
  /\ lastGet' = NoGet
  /\ UNCHANGED <<cacheReady, booted, cache, lastSet, lastOp>>
  /\ UNCHANGED searchVars
  /\ UNCHANGED requestVars
  /\ UNCHANGED <<apiVars, normVars>>

(***************************************************************************)
(* search.service.js: SearchApiService                                     *)
(***************************************************************************)
\* this.remainingSearches = 100
QuotaInit == 100

\* config.cache.ttlSearch and config.cache.ttlFlights: parseInt(process.env...)
\* || default, here configured to a few seconds
ttlSearch == 1

ttlFlights == 1
\* config.cache.ttlHotels, in seconds
ttlHotels == 1

\* the requests the server handles at a time
Procs == {"r1", "r2"}

\* one web-search cache key (`web:${query}:${JSON.stringify(options)}`) and
\* one flight-search cache key (`flights:${origin}:...:${adults}`)
WebKey == "web:q"

FlightsKey == "flights:f"

SearchKeys == {WebKey, FlightsKey}

\* `web:${query}:${JSON.stringify(options)}` of the i-th query the LLM proposed
WebKeyOf(i) == "web:q" \o ToString(i) \o ":{}"

\* the cache keys of webSearch
WebKeys == {WebKey, WebKeyOf(1), WebKeyOf(2)}

\* `hotels:${searchLocation}:${checkIn}:${checkOut}:${adults}`
HotelsKeyOf(checkIn, checkOut) ==
  "hotels:c:" \o ToString(checkIn) \o ":" \o ToString(checkOut) \o ":1"

IsHotelsKey(key) == \E i \in 0..Len(key) : SubSeq(key, 1, i) = "hotels:"

\* response.data of a resolved axios.get: a JSON object
ResponseData(key) == IF key = WebKey THEN {Obj(1), Obj(2)} ELSE {Obj(3)}

\* cacheTTL || config.cache.ttlSearch
CacheTTL(key) ==
  IF key \in WebKeys THEN ttlSearch
  ELSE IF IsHotelsKey(key) THEN ttlHotels
  ELSE ttlFlights

\* a provider that takes itself for configured whatever the key
isConfigured_Always == TRUE

\* isConfigured(): !!this.apiKey
isConfigured == apiKey

Idle == [st |-> "idle", key |-> WebKey]

Waiting(key) == [st |-> "wait", key |-> key]

NoCall == [key |-> WebKey, out |-> "none", res |-> Null]

\* search(): what getCached gives for the call's cacheKey
CachedFor(key) ==
  IF isCacheReady THEN getCachedResult(cache, cacheReady, TRUE, key, now) ELSE Null

\* the quota check placed before the cache lookup
StartOutcome_QuotaFirst(key, cached, configured, remaining) ==
  IF key \notin WebKeys /\ ~configured THEN "empty"
  ELSE IF ~configured THEN "notconfigured"
  ELSE IF remaining <= 0 THEN "quota"
  ELSE IF Truthy(cached) THEN "hit"
  ELSE "send"

\* the synchronous part of searchFlights()/webSearch() and search(), up to the
\* await: "empty" searchFlights returns [] (not configured), "hit" the cached
\* value is returned, "notconfigured" and "quota" search() throws, "send" the
\* request goes out
StartOutcome(key, cached, configured, remaining) ==
  IF key \notin WebKeys /\ ~configured THEN "empty"
  ELSE IF Truthy(cached) THEN "hit"
  ELSE IF ~configured THEN "notconfigured"
  ELSE IF remaining <= 0 THEN "quota"
  ELSE "send"

\* the counter decremented whether or not the request resolved
QuotaAfter_Always(remaining, resolved) == remaining - 1

\* the counter held at zero instead of decremented below it
QuotaAfter_Clamped(remaining, resolved) ==
  IF resolved /\ remaining > 0 THEN remaining - 1 ELSE remaining

\* this.remainingSearches-- after the awaited axios.get resolved
QuotaAfter(remaining, resolved) == IF resolved THEN remaining - 1 ELSE remaining

\* a webSearch or searchFlights call of request p, up to its await
SearchStart(p, key) ==
  /\ pc[p].st = "idle"
  /\ LET cached == CachedFor(key)
         out == StartOutcome(key, cached, isConfigured, remainingSearches)
     IN  /\ pc' = [pc EXCEPT ![p] = IF out = "send" THEN Waiting(key) ELSE Idle]
         /\ last' = [key |-> key, out |-> out,
                     res |-> IF out = "hit" THEN cached ELSE Null]
  /\ UNCHANGED <<apiKey, remainingSearches, okCalls>>
  /\ UNCHANGED cacheVars
  /\ UNCHANGED requestVars
  /\ UNCHANGED <<apiVars, normVars>>

\* the awaited axios.get of request p resolves with data, or rejects
SearchResponse(p, resolved, data) ==
  /\ pc[p].st = "wait"
  /\ LET key == pc[p].key
     IN  /\ remainingSearches' = QuotaAfter(remainingSearches, resolved)
         /\ okCalls' = IF resolved THEN okCalls + 1 ELSE okCalls
         /\ cache' = IF resolved /\ isCacheReady
                     THEN setCacheRows(cache, cacheReady, TRUE, key, data,
                                       CacheTTL(key), now)
                     ELSE cache
         /\ last' = [key |-> key, out |-> IF resolved THEN "ok" ELSE "error",
                     res |-> IF resolved THEN data ELSE Null]
  /\ pc' = [pc EXCEPT ![p] = Idle]
  /\ UNCHANGED apiKey
  /\ UNCHANGED <<cacheReady, booted, now, lastSet, lastGet, lastOp>>
  /\ UNCHANGED requestVars
  /\ UNCHANGED <<apiVars, normVars>>

getRemainingSearches == remainingSearches

\* the rows with the clock's origin moved one second on; a row expired for
\* more than a second stays where it is (it is below every later clock value)
Rebase(rows) ==
  {[r EXCEPT !.expires_at = IF r.expires_at >= now THEN r.expires_at - 1
                            ELSE r.expires_at] : r \in rows}

\* a second passes.  The quota outlives every bounded clock, so the search
\* specification keeps `now` at 0 and moves the origin of time instead: every
\* expires_at is counted from the current second.
SearchTick ==
  /\ cache' = Rebase(cache)
  /\ cache' # cache
  /\ UNCHANGED <<cacheReady, booted, now, lastSet, lastGet, lastOp>>
  /\ UNCHANGED searchVars
  /\ UNCHANGED requestVars
  /\ UNCHANGED <<apiVars, normVars>>

(***************************************************************************)
(* The flight provider and searchFlightsInRange.                           *)
(*                                                                         *)
(* A date is a day number (the calendar day of its ISO text, the server    *)
(* running in UTC).  The provider's answer for a departure date is fixed   *)
(* for the length of a request; it depends on the date through SlotOf.     *)
(***************************************************************************)
\* startDate is drawn from 0..MaxDay, endDate is MaxDay - 1
MaxDay == 31

Prices == {1, 2}

\* tripDuration; 0 stands for an absent (falsy) tripDuration
TripDurations == {0, 2}

Slots == {0, 1}

SlotOf(d) == (d \div 3) % 2

\* a flight without searchDate, a search without returnDate
NoDate == 0 - 1

Services == {"searchapi", "amadeus"}

\* an entry of best_flights or other_flights: its price and the number of its
\* segments (option.flights.length)
Options ==
  {[price |-> p, flights |-> 1] : p \in Prices} \cup {[price |-> 1, flights |-> 0]}

OptionLists == {<<>>} \cup {<<o>> : o \in Options}

\* a resolved request's response.data
Payloads == [ok : {TRUE}, best_flights : OptionLists, other_flights : OptionLists]

\* a rejected request (network error, HTTP error, timeout)
Rejected == [ok |-> FALSE, best_flights |-> <<>>, other_flights |-> <<>>]

Worlds == [Slots -> Payloads \cup {Rejected}]

\* response.data as the cache holds it: the JSON object of the date's slot
DataOf(d) == Obj(SlotOf(d) + 1)

\* the response.data a cached JSON object stands for
PayloadOf(v) == world[v.n - 1]

\* normalizeFlightOption: null (nothing pushed) for an option without
\* segments; the id is unique to the option of the response
normalizeFlightOption(option, type, d, k) ==
  IF option.flights = 0 THEN <<>>
  ELSE <<[id |-> [date |-> d, type |-> type, k |-> k], price |-> option.price, type |-> type,
          searchDate |-> NoDate]>>

RECURSIVE NormalizeOptions(_, _, _, _)
\* for (const option of list) { ...; if (normalized) flights.push(normalized) }
NormalizeOptions(list, type, d, k) ==
  IF k > Len(list) THEN <<>>
  ELSE normalizeFlightOption(list[k], type, d, k)
         \o NormalizeOptions(list, type, d, k + 1)

\* SearchApiService.normalizeFlightData: best_flights, then other_flights
normalizeFlightData(raw, d) ==
  NormalizeOptions(raw.best_flights, "best", d, 1)
    \o NormalizeOptions(raw.other_flights, "other", d, 1)

\* AmadeusService.normalizeFlightData: response.data.map(offer => ...), the
\* two lists of the payload standing for response.data
normalizeOffers(raw, d) ==
  LET data == raw.best_flights \o raw.other_flights
  IN  [k \in 1..Len(data) |->
         [id |-> [date |-> d, type |-> "offer", k |-> k], price |-> data[k].price, type |-> "offer",
          searchDate |-> NoDate]]

Normalized(svc, raw, d) ==
  IF svc = "amadeus" THEN normalizeOffers(raw, d)
  ELSE normalizeFlightData(raw, d)

\* `flights:${origin}:${destination}:${departureDate}:${returnDate || 'oneway'}:${adults}`
FlightsKeyOf(d, ret) ==
  "flights:o:d:" \o ToString(d) \o ":"
    \o (IF ret = NoDate THEN "oneway" ELSE ToString(ret)) \o ":1"

\* a step of one day instead of three
NextSample_Daily(current) == current + 1

\* current.setDate(current.getDate() + 3)
NextSample(current) == current + 3

RECURSIVE DatesFrom(_, _)
\* while (current <= end) { dates.push(...); current.setDate(...) }
DatesFrom(current, end) ==
  IF current <= end THEN <<current>> \o DatesFrom(NextSample(current), end)
  ELSE <<>>

\* seq.slice(0, n)
Slice(seq, n) == SubSeq(seq, 1, IF Len(seq) < n THEN Len(seq) ELSE n)

\* dates.slice(0, 5) in SearchApiService, dates.slice(0, 10) in AmadeusService
SampleCap(svc) == IF svc = "amadeus" THEN 10 ELSE 5

\* the duration left out of the sum
ReturnDate_Departure(departureDate, tripDuration) ==
  IF tripDuration # 0 THEN departureDate ELSE NoDate

\* tripDuration ? departureDate + tripDuration days : null
ReturnDate(departureDate, tripDuration) ==
  IF tripDuration # 0 THEN departureDate + tripDuration ELSE NoDate

\* the price of the first flight taken for the minimum
MinPrice_First(list, k) == list[k].price

RECURSIVE MinPrice(_, _)
\* Math.min(...flights.map(f => f.price.total)), of a non-empty list
MinPrice(list, k) ==
  IF k = Len(list) THEN list[k].price
  ELSE LET rest == MinPrice(list, k + 1)
       IN  IF list[k].price < rest THEN list[k].price ELSE rest

\* the later of two equal prices wins
BestOf_Last(best, flight) == IF flight.price <= best.price THEN flight ELSE best

\* (best, flight) => flight.price.total < best.price.total ? flight : best
BestOf(best, flight) == IF flight.price < best.price THEN flight ELSE best

RECURSIVE Reduce(_, _, _)
\* allFlights.reduce(...) without an initial value: best starts as element 1
Reduce(list, k, best) ==
  IF k > Len(list) THEN best
  ELSE Reduce(list, k + 1, BestOf(best, list[k]))

BestDeal(list) == IF Len(list) > 0 THEN Reduce(list, 2, list[1]) ELSE Null

EmptyMap == [d \in {} |-> 0]

\* { flights: [], bestDeal: null, priceByDate: {} }
EmptyResult == [flights |-> <<>>, bestDeal |-> Null, priceByDate |-> EmptyMap]

NoArgs == [startDate |-> 0, endDate |-> 0, tripDuration |-> 0]

\* searchFlightsInRange up to its loop: not configured, it returns the empty
\* result; otherwise the sample dates are drawn
RangeStart ==
  /\ rangePc = "call"
  /\ IF ~isConfigured
     THEN /\ rangePc' = "done"
          /\ rangeResult' = EmptyResult
          /\ UNCHANGED sampleDates
     ELSE /\ rangePc' = "loop"
          /\ sampleDates' = Slice(DatesFrom(rangeArgs.startDate, rangeArgs.endDate),
                                  SampleCap(service))
          /\ UNCHANGED rangeResult
  /\ UNCHANGED <<world, service, rangeArgs, allFlights, priceByDate, flightCalls>>
  /\ UNCHANGED <<cacheVars, searchVars, recVars>>
  /\ UNCHANGED <<apiVars, normVars>>

\* a searchFlights call from its cache lookup to its return: the outcome of
\* the synchronous part, whether the request resolved, and the flights returned
FlightsCall(svc, departureDate, returnDate) ==
  LET key == FlightsKeyOf(departureDate, returnDate)
      cached == CachedFor(key)
      out == IF svc = "amadeus"
             THEN (IF Truthy(cached) THEN "hit" ELSE "send")
             ELSE StartOutcome(key, cached, isConfigured, remainingSearches)
      raw == world[SlotOf(departureDate)]
      resolved == out = "send" /\ raw.ok
  IN  [key |-> key, out |-> out, resolved |-> resolved,
       flights |-> IF out = "hit"
                   THEN Normalized(svc, PayloadOf(cached), departureDate)
                   ELSE IF resolved
                   THEN Normalized(svc, raw, departureDate)
                   ELSE <<>>]

\* the counter decremented by web searches only
SearchEffects_WebOnly(svc, out, resolved, key, data) ==
  /\ remainingSearches' =
       IF svc = "searchapi" /\ out = "send" /\ key \in WebKeys
       THEN QuotaAfter(remainingSearches, resolved)
       ELSE remainingSearches
  /\ okCalls' = IF resolved THEN okCalls + 1 ELSE okCalls
  /\ cache' = IF resolved /\ isCacheReady
              THEN setCacheRows(cache, cacheReady, TRUE, key, data,
                                CacheTTL(key), now)
              ELSE cache
  /\ outbound' = IF out = "send" THEN outbound + 1 ELSE outbound

\* what a search() call leaves behind: the counter (SearchApiService only),
\* the cached response.data, the requests sent and resolved
SearchEffects(svc, out, resolved, key, data) ==
  /\ remainingSearches' =
       IF svc = "searchapi" /\ out = "send"
       THEN QuotaAfter(remainingSearches, resolved)
       ELSE remainingSearches
  /\ okCalls' = IF resolved THEN okCalls + 1 ELSE okCalls
  /\ cache' = IF resolved /\ isCacheReady
              THEN setCacheRows(cache, cacheReady, TRUE, key, data,
                                CacheTTL(key), now)
              ELSE cache
  /\ outbound' = IF out = "send" THEN outbound + 1 ELSE outbound

\* a rejected request thrown out of the loop
AfterDate_Rethrow(d) == IF world[SlotOf(d)].ok THEN "loop" ELSE "threw"

\* where the loop is after the pass of date d: searchFlights returns [] from
\* its own catch and the loop's try/catch swallows whatever is thrown, so the
\* loop goes on to the next date
AfterDate(d) == "loop"

\* one pass of the loop: the searchFlights call of the next sample date, from
\* its cache lookup to its return, and what the loop does with the flights
RangeDate ==
  /\ rangePc = "loop"
  /\ flightCalls < Len(sampleDates)
  /\ LET departureDate == sampleDates[flightCalls + 1]
         returnDate == ReturnDate(departureDate, rangeArgs.tripDuration)
         call == FlightsCall(service, departureDate, returnDate)
     IN  /\ SearchEffects(service, call.out, call.resolved, call.key,
                          DataOf(departureDate))
         /\ IF Len(call.flights) > 0
            THEN /\ priceByDate' =
                      [d \in DOMAIN priceByDate \cup {departureDate} |->
                         IF d = departureDate THEN MinPrice(call.flights, 1)
                         ELSE priceByDate[d]]
                 /\ allFlights' = allFlights \o
                      [k \in 1..Len(call.flights) |->
                         [call.flights[k] EXCEPT !.searchDate = departureDate]]
            ELSE UNCHANGED <<priceByDate, allFlights>>
  /\ flightCalls' = flightCalls + 1
  /\ rangePc' = AfterDate(sampleDates[flightCalls + 1])
  /\ UNCHANGED <<world, service, rangeArgs, sampleDates, rangeResult>>
  /\ UNCHANGED <<cacheReady, booted, now, lastSet, lastGet, lastOp, apiKey, pc,
                 last>>
  /\ UNCHANGED <<req, step, flights, hotels, smartQueries, webSearchResults,
                 analysis, response>>
  /\ UNCHANGED <<apiVars, normVars>>

\* after the loop: bestDeal is picked and the result returned
RangeFinish ==
  /\ rangePc = "loop"
  /\ flightCalls = Len(sampleDates)
  /\ rangePc' = "done"
  /\ rangeResult' = [flights |-> allFlights, bestDeal |-> BestDeal(allFlights),
                     priceByDate |-> priceByDate]
  /\ UNCHANGED <<world, service, rangeArgs, sampleDates, allFlights, priceByDate,
                 flightCalls>>
  /\ UNCHANGED <<cacheVars, searchVars, recVars>>
  /\ UNCHANGED <<apiVars, normVars>>

(***************************************************************************)
(* POST /recommendations: getRecommendations.                              *)
(*                                                                         *)
(* A request body gives origin and destination (present or not) and the    *)
(* dates periodStart, periodEnd and departureDate (NoDate when absent).    *)
(***************************************************************************)
Requests ==
  [origin : BOOLEAN, destination : BOOLEAN, periodStart : {NoDate, 1},
   periodEnd : {NoDate, 0, 4, 13}, departureDate : {NoDate, 4},
   tripDuration : {2}]

NoRequest ==
  [origin |-> FALSE, destination |-> FALSE, periodStart |-> NoDate,
   periodEnd |-> NoDate, departureDate |-> NoDate, tripDuration |-> 2]

\* const useDateRange = periodStart && periodEnd
UseDateRange(r) == r.periodStart # NoDate /\ r.periodEnd # NoDate

\* the date check left out
Validate_DatesUnchecked(r) ==
  IF ~r.origin \/ ~r.destination THEN "400"
  ELSE IF UseDateRange(r) THEN "range"
  ELSE "specific"

\* the validation and the choice of the flow
Validate(r) ==
  IF ~r.origin \/ ~r.destination THEN "400"
  ELSE IF ~UseDateRange(r) /\ r.departureDate = NoDate THEN "400"
  ELSE IF UseDateRange(r) THEN "range"
  ELSE "specific"

\* the flight answers a recommendation request meets
RecPayloads ==
  {Rejected,
   [ok |-> TRUE, best_flights |-> <<>>, other_flights |-> <<>>],
   [ok |-> TRUE, best_flights |-> <<>>,
    other_flights |-> <<[price |-> 2, flights |-> 1]>>],
   [ok |-> TRUE, best_flights |-> <<[price |-> 2, flights |-> 1]>>,
    other_flights |-> <<[price |-> 1, flights |-> 1]>>]}

RecWorlds == {w \in Worlds : \A s \in Slots : w[s] \in RecPayloads}

\* searchDates.departureDate || searchDates.recommended || periodStart
CheckIn(r, bestDeal) ==
  IF UseDateRange(r)
  THEN (IF bestDeal # Null THEN bestDeal.searchDate ELSE r.periodStart)
  ELSE r.departureDate

\* searchDates.returnDate || checkIn plus tripDuration days
CheckOut(r, bestDeal) == CheckIn(r, bestDeal) + r.tripDuration

\* the hotel provider's answer: rejected, or n properties
HotelAnswers == {[ok |-> FALSE, n |-> 0]} \cup [ok : {TRUE}, n : 0..2]

\* response.data of a hotel search as the cache holds it
HotelData(answer) == Obj(10 + answer.n)

\* normalizeHotelData: property i has id i and one offer of total price i
normalizeHotelData(answer) ==
  [i \in 1..answer.n |-> [id |-> [hotel |-> i], total |-> i]]

\* response.data of a web search as the cache holds it
WebData(i) == Obj(20 + i)

\* let webSearchResults = null
NoWebResults == [isNull |-> TRUE, list |-> <<>>]

\* an id that no fetched flight or hotel has
UnknownId == [unknown |-> TRUE]

Least(a, b) == IF a < b THEN a ELSE b

\* a placeholder id where there is no hotel
FirstHotelId_Placeholder(hs) == IF Len(hs) > 0 THEN hs[1].id ELSE UnknownId

\* hotels[0]?.id || null
FirstHotelId(hs) == IF Len(hs) > 0 THEN hs[1].id ELSE Null

\* hotels[0]?.offers?.[0]?.price?.total || 0
FirstHotelTotal(hs) == IF Len(hs) > 0 THEN hs[1].total ELSE 0

\* the whole flight list instead of its first five
Fallback_All(fs, hs) ==
  [k \in 1..Len(fs) |->
     [rank |-> k, flightId |-> fs[k].id, hotelId |-> FirstHotelId(hs),
      totalPrice |-> fs[k].price + FirstHotelTotal(hs),
      valueScore |-> 70 - ((k - 1) * 5)]]

\* flights.slice(0, 5).map((flight, index) => ({ rank: index + 1, ... }))
Fallback(fs, hs) ==
  [k \in 1..Least(5, Len(fs)) |->
     [rank |-> k, flightId |-> fs[k].id, hotelId |-> FirstHotelId(hs),
      totalPrice |-> fs[k].price + FirstHotelTotal(hs),
      valueScore |-> 70 - ((k - 1) * 5)]]

\* list.find(x => x.id === id) || null
Find(list, id) ==
  IF \E k \in 1..Len(list) : list[k].id = id
  THEN list[CHOOSE k \in 1..Len(list) :
              /\ list[k].id = id
              /\ \A m \in 1..(k - 1) : list[m].id # id]
  ELSE Null

\* ({ ...rec, flight: flight || null, hotel: hotel || null })
Enrich(rec, fs, hs) ==
  [rank |-> rec.rank, flightId |-> rec.flightId, hotelId |-> rec.hotelId,
   totalPrice |-> rec.totalPrice, valueScore |-> rec.valueScore,
   flight |-> Find(fs, rec.flightId), hotel |-> Find(hs, rec.hotelId)]

RECURSIVE Join_Matched(_, _, _)
\* the recommendations without a fetched flight left out
Join_Matched(recs, fs, hs) ==
  IF Len(recs) = 0 THEN <<>>
  ELSE (IF Find(fs, recs[1].flightId) = Null THEN <<>>
        ELSE <<Enrich(recs[1], fs, hs)>>)
         \o Join_Matched(Tail(recs), fs, hs)

\* analysis.recommendations.map(rec => ...)
Join(recs, fs, hs) == [k \in 1..Len(recs) |-> Enrich(recs[k], fs, hs)]

\* the recommendations an LLM may name: the last fetched flight or an unknown
\* flight, the first fetched hotel or none
LlmRecs(fs, hs) ==
  [rank : {1},
   flightId : {UnknownId} \cup {fs[k].id : k \in {Len(fs)} \ {0}},
   hotelId : {Null} \cup {hs[k].id : k \in {1} \cap DOMAIN hs},
   totalPrice : {0}, valueScore : {90}]

\* insights: {} and summary: '' of the initial analysis
NoText == [from |-> "none", flights |-> 0, hotels |-> 0]

\* insights and summary as the LLM wrote them
LlmText == [from |-> "llm", flights |-> 0, hotels |-> 0]

\* the insights and the summary of the catch block: `Found ${flights.length}
\* flights and ${hotels.length} hotels ...`
FallbackText(fs, hs) == [from |-> "fallback", flights |-> Len(fs), hotels |-> Len(hs)]

\* the analysis object the catch block builds
FallbackAnalysis(fs, hs) ==
  [out |-> "throw", recommendations |-> Fallback(fs, hs),
   insights |-> FallbackText(fs, hs), summary |-> FallbackText(fs, hs)]

\* the failure of the analysis call forwarded to next(error)
AnalysisStatus_Forwarded(out) == IF out \in {"malformed", "throw"} THEN 500 ELSE 200

\* the status the request ends with, by how the analysis call ended: a throw
\* is caught and replaced by the fallback; a result without a recommendations
\* array makes analysis.recommendations.map throw, the outer catch calls
\* next(error) and the error middleware answers 500
AnalysisStatus(out) == IF out = "malformed" THEN 500 ELSE 200

\* how the analyzeAndRecommend call ends: it throws, it returns a JSON value
\* without a recommendations array, or it returns up to two recommendations
LlmAnswers(fs, hs) ==
  {[out |-> "throw", recommendations |-> <<>>, insights |-> NoText,
    summary |-> NoText],
   [out |-> "malformed", recommendations |-> <<>>, insights |-> LlmText,
    summary |-> LlmText]}
    \cup {[out |-> "ok", recommendations |-> l, insights |-> LlmText,
           summary |-> LlmText] :
            l \in {<<>>} \cup {<<r>> : r \in LlmRecs(fs, hs)}
                    \cup {<<r, q>> : r \in LlmRecs(fs, hs), q \in LlmRecs(fs, hs)}}

\* let analysis = { recommendations: [], insights: {}, summary: '' }
NoAnalysis ==
  [out |-> "none", recommendations |-> <<>>, insights |-> NoText,
   summary |-> NoText]

NoResponse ==
  [status |-> 0, recommendations |-> <<>>, insights |-> NoText,
   summary |-> NoText, searchMode |-> "none",
   searchPeriod |-> Null, bestDeal |-> Null,
   priceByDate |-> [isNull |-> TRUE, entries |-> EmptyMap],
   flightsAnalyzed |-> 0, hotelsAnalyzed |-> 0, webSearchesUsed |-> 0,
   remainingSearches |-> 0]

\* res.status(400).json(...), or the error middleware's res.status(500)
ErrorResponse(status) == [NoResponse EXCEPT !.status = status]

\* a departureDate in the body taking precedence over the period
SearchMode_DepartureFirst(r) ==
  IF r.departureDate # NoDate THEN "specific_dates"
  ELSE IF UseDateRange(r) THEN "date_range"
  ELSE "specific_dates"

\* searchMode: useDateRange ? 'date_range' : 'specific_dates'
SearchMode(r) == IF UseDateRange(r) THEN "date_range" ELSE "specific_dates"

\* res.json({ recommendations, ..., searchPeriod, bestDeal, priceByDate, meta })
SuccessResponse(r, a, fs, hs, web, result, remaining) ==
  [status |-> 200, recommendations |-> Join(a.recommendations, fs, hs),
   insights |-> a.insights, summary |-> a.summary,
   searchMode |-> SearchMode(r),
   searchPeriod |-> IF UseDateRange(r)
                    THEN [start |-> r.periodStart, end |-> r.periodEnd,
                          tripDuration |-> r.tripDuration]
                    ELSE Null,
   bestDeal |-> IF result.bestDeal # Null
                THEN [date |-> result.bestDeal.searchDate,
                      price |-> result.bestDeal.price,
                      flight |-> result.bestDeal]
                ELSE Null,
   priceByDate |-> [isNull |-> DOMAIN result.priceByDate = {},
                    entries |-> result.priceByDate],
   flightsAnalyzed |-> Len(fs), hotelsAnalyzed |-> Len(hs),
   webSearchesUsed |-> Len(web.list), remainingSearches |-> remaining]

\* the cached response.data of a hotel search, as a hotel answer
HotelAnswerOf(v) == [ok |-> TRUE, n |-> v.n - 10]

\* the handler up to its first await: the validation, then the range flow
\* (searchFlightsInRange is called) or the specific-dates flow
RecValidate ==
  /\ step = "start"
  /\ LET flow == Validate(req)
     IN  /\ step' = IF flow = "400" THEN "done"
                    ELSE IF flow = "range" THEN "range"
                    ELSE "flights"
         /\ response' = IF flow = "400" THEN ErrorResponse(400) ELSE response
         /\ rangePc' = IF flow = "range" THEN "call" ELSE rangePc
         /\ rangeArgs' = IF flow = "range"
                         THEN [startDate |-> req.periodStart,
                               endDate |-> req.periodEnd,
                               tripDuration |-> req.tripDuration]
                         ELSE rangeArgs
  /\ UNCHANGED <<world, service, sampleDates, allFlights, priceByDate,
                 rangeResult, flightCalls>>
  /\ UNCHANGED <<req, flights, hotels, smartQueries, webSearchResults,
                 analysis, outbound>>
  /\ UNCHANGED <<cacheVars, searchVars>>
  /\ UNCHANGED <<apiVars, normVars>>

\* searchFlightsInRange has returned: flights = rangeResults.flights
RecRange ==
  /\ step = "range"
  /\ rangePc = "done"
  /\ flights' = rangeResult.flights
  /\ step' = "hotels"
  /\ UNCHANGED <<req, hotels, smartQueries, webSearchResults, analysis,
                 response, outbound>>
  /\ UNCHANGED <<cacheVars, searchVars, rangeVars>>
  /\ UNCHANGED <<apiVars, normVars>>

\* the specific-dates flow: one searchFlights call
RecFlights ==
  /\ step = "flights"
  /\ LET call == FlightsCall(service, req.departureDate, NoDate)
     IN  /\ SearchEffects(service, call.out, call.resolved, call.key,
                          DataOf(req.departureDate))
         /\ flights' = call.flights
  /\ step' = "hotels"
  /\ UNCHANGED <<req, hotels, smartQueries, webSearchResults, analysis, response>>
  /\ UNCHANGED <<cacheReady, booted, now, lastSet, lastGet, lastOp, apiKey, pc,
                 last>>
  /\ UNCHANGED rangeVars
  /\ UNCHANGED <<apiVars, normVars>>

\* the searchHotels call, inside its try: the hotels, or none when it fails
RecHotels(answer) ==
  /\ step = "hotels"
  /\ LET key == HotelsKeyOf(CheckIn(req, rangeResult.bestDeal),
                            CheckOut(req, rangeResult.bestDeal))
         cached == CachedFor(key)
         out == StartOutcome(key, cached, isConfigured, remainingSearches)
         resolved == out = "send" /\ answer.ok
     IN  /\ SearchEffects(service, out, resolved, key, HotelData(answer))
         /\ hotels' = IF out = "hit"
                      THEN normalizeHotelData(HotelAnswerOf(cached))
                      ELSE IF resolved THEN normalizeHotelData(answer)
                      ELSE <<>>
  /\ step' = "enrich"
  /\ UNCHANGED <<req, flights, smartQueries, webSearchResults, analysis, response>>
  /\ UNCHANGED <<cacheReady, booted, now, lastSet, lastGet, lastOp, apiKey, pc,
                 last>>
  /\ UNCHANGED rangeVars
  /\ UNCHANGED <<apiVars, normVars>>

\* the enrichment decision: with quota left the LLM is asked for queries and
\* proposes n of them (none when the call fails)
RecQueries(n) ==
  /\ step = "enrich"
  /\ IF getRemainingSearches > 0
     THEN /\ outbound' = outbound + 1
          /\ smartQueries' = n
          /\ webSearchResults' =
               IF n > 0 THEN [isNull |-> FALSE, list |-> <<>>] ELSE NoWebResults
          /\ step' = IF n > 0 THEN "web" ELSE "analysis"
     ELSE /\ n = 0
          /\ step' = "analysis"
          /\ UNCHANGED <<outbound, smartQueries, webSearchResults>>
  /\ UNCHANGED <<req, flights, hotels, analysis, response>>
  /\ UNCHANGED <<cacheVars, searchVars, rangeVars>>
  /\ UNCHANGED <<apiVars, normVars>>

\* every proposed query searched
Sliced_All(n) == n

\* smartQueries.slice(0, 2).length
Sliced(n) == Least(n, 2)

\* the webSearch call of the next of smartQueries.slice(0, 2): webSearch
\* catches its own errors, so its result is pushed however the search ended
RecWebSearch(resolves) ==
  /\ step = "web"
  /\ LET i == Len(webSearchResults.list) + 1
         key == WebKeyOf(i)
         cached == CachedFor(key)
         out == StartOutcome(key, cached, isConfigured, remainingSearches)
         resolved == out = "send" /\ resolves
     IN  /\ SearchEffects(service, out, resolved, key, WebData(i))
         /\ webSearchResults' =
              [webSearchResults EXCEPT
                 !.list = Append(@, [query |-> i,
                                     found |-> resolved \/ out = "hit"])]
         /\ step' = IF i >= Sliced(smartQueries) THEN "analysis" ELSE "web"
  /\ UNCHANGED <<req, flights, hotels, smartQueries, analysis, response>>
  /\ UNCHANGED <<cacheReady, booted, now, lastSet, lastGet, lastOp, apiKey, pc,
                 last>>
  /\ UNCHANGED rangeVars
  /\ UNCHANGED <<apiVars, normVars>>

\* the analyzeAndRecommend call and the rest of the handler: the fallback
\* when the call throws, the join, and the response; a result without a
\* recommendations array makes the join throw, which goes to next(error)
RecAnalysis(answer) ==
  /\ step = "analysis"
  /\ outbound' = outbound + 1
  /\ LET a == IF answer.out = "throw" THEN FallbackAnalysis(flights, hotels)
              ELSE answer
     IN  /\ analysis' = a
         /\ response' =
              IF AnalysisStatus(answer.out) = 200
              THEN SuccessResponse(req, a, flights, hotels, webSearchResults,
                                   rangeResult, getRemainingSearches)
              ELSE ErrorResponse(AnalysisStatus(answer.out))
  /\ step' = "done"
  /\ UNCHANGED <<req, flights, hotels, smartQueries, webSearchResults>>
  /\ UNCHANGED <<cacheVars, searchVars, rangeVars>>
  /\ UNCHANGED <<apiVars, normVars>>

\* no recommendation request is in progress
RecIdle ==
  /\ req = NoRequest
  /\ step = "idle"
  /\ flights = <<>>
  /\ hotels = <<>>
  /\ smartQueries = 0
  /\ webSearchResults = NoWebResults
  /\ analysis = NoAnalysis
  /\ response = NoResponse
  /\ outbound = 0

\* no range search is in progress
RangeIdle ==
  /\ world = [s \in Slots |-> Rejected]
  /\ service = "searchapi"
  /\ rangeArgs = NoArgs
  /\ rangePc = "idle"
  /\ sampleDates = <<>>
  /\ allFlights = <<>>
  /\ priceByDate = EmptyMap
  /\ rangeResult = EmptyResult
  /\ flightCalls = 0

(***************************************************************************)
(* normalizeFlightData and normalizeHotelData field by field, applied      *)
(* more than once to the same response.data.                               *)
(***************************************************************************)
\* the normalisation calls made on one response.data
MaxRuns == 2

\* the values Date.now() and Math.random() take between two calls
Nonces == {1, 2}

\* what one call draws for the options or properties it normalises, in order
Entropies == [1..2 -> Nonces]

\* a segment of option.flights
RawSegments ==
  <<[flight_number |-> "BA1", airline |-> "BA", duration |-> 90,
     departure_airport |-> "LHR", arrival_airport |-> "CDG"],
    [flight_number |-> "", airline |-> "AF", duration |-> 0,
     departure_airport |-> "CDG", arrival_airport |-> "FCO"]>>

\* an entry of best_flights or other_flights; price 0 and total_duration 0
\* stand for the absent (falsy) field
RawOptions ==
  [price : {0, 2},
   total_duration : {0, 150},
   flights : {<<>>, <<RawSegments[1]>>, RawSegments, <<RawSegments[2]>>}]

RawOptionLists == {<<>>} \cup {<<o>> : o \in RawOptions}

\* response.data of a flight search
RawFlightResponses == [best_flights : RawOptionLists, other_flights : RawOptionLists]

\* an entry of response.properties; property_token "" and the rates 0 stand
\* for the absent field.  The dates are day numbers: a stay of two nights,
\* checkOut on the day of checkIn, and checkOut two days before checkIn.
RawProperties ==
  [property_token : {"", "tok1"}, total_rate : {0, 100}, rate_per_night : {0, 50}]

RawHotelResponses ==
  [properties : {<<>>} \cup {<<p>> : p \in RawProperties}
                  \cup {<<p, q>> : p \in RawProperties, q \in RawProperties},
   checkIn : {4},
   checkOut : {2, 4, 6}]

\* formatDuration(minutes): '', `${mins}m` or `${hours}h ${mins}m`
formatDuration(minutes) ==
  IF minutes = 0 THEN ""
  ELSE IF minutes \div 60 > 0
  THEN ToString(minutes \div 60) \o "h " \o ToString(minutes % 60) \o "m"
  ELSE ToString(minutes % 60) \o "m"

\* `${flight_number || 'FL'}-${departure_airport?.id || ''}-${Date.now()}-${Math.random()...}`
FlightId(firstFlight, nonce) ==
  (IF firstFlight.flight_number # "" THEN firstFlight.flight_number ELSE "FL")
    \o "-" \o firstFlight.departure_airport \o "-" \o ToString(nonce)

\* seg => ({ carrier, flightNumber, departure, arrival, duration, durationFormatted })
SegmentOf(seg) ==
  [carrier |-> seg.airline, flightNumber |-> seg.flight_number,
   departure |-> seg.departure_airport, arrival |-> seg.arrival_airport,
   duration |-> seg.duration, durationFormatted |-> formatDuration(seg.duration)]

\* normalizeFlightOption(option, currency, type): nothing for an option
\* without segments
FlightOf(option, currency, type, nonce) ==
  IF Len(option.flights) = 0 THEN <<>>
  ELSE LET flightSegments == option.flights
           firstFlight == flightSegments[1]
           lastFlight == flightSegments[Len(flightSegments)]
       IN  <<[id |-> FlightId(firstFlight, nonce),
              price |-> [total |-> option.price, currency |-> currency,
                         perTraveler |-> option.price],
              outbound |->
                [departure |-> firstFlight.departure_airport,
                 arrival |-> lastFlight.arrival_airport,
                 duration |-> option.total_duration,
                 durationFormatted |-> formatDuration(option.total_duration),
                 stops |-> Len(flightSegments) - 1,
                 segments |-> [k \in 1..Len(flightSegments) |->
                                 SegmentOf(flightSegments[k])]],
              type |-> type]>>

RECURSIVE FlightsFrom(_, _, _, _, _)
\* for (const option of list) { ...; if (normalized) flights.push(normalized) }
FlightsFrom(list, currency, type, entropy, k) ==
  IF k > Len(list) THEN <<>>
  ELSE FlightOf(list[k], currency, type, entropy[k])
         \o FlightsFrom(list, currency, type, entropy, k + 1)

\* normalizeFlightData(response, currency): best_flights, then other_flights;
\* the second list draws its own values
FlightsOf(raw, currency, entropy) ==
  FlightsFrom(raw.best_flights, currency, "best", entropy, 1)
    \o FlightsFrom(raw.other_flights, currency, "other",
                   [k \in 1..2 |-> entropy[3 - k]], 1)

\* Math.ceil((end - start) / 86400000) || 1
calculateNights(checkIn, checkOut) ==
  IF checkOut - checkIn # 0 THEN checkOut - checkIn ELSE 1

\* a fresh id for every property, token or not
HotelId_Fresh(property, nonce) == "hotel-" \o ToString(nonce)

\* property.property_token || `hotel-${Date.now()}-${Math.random()...}`
HotelId(property, nonce) ==
  IF property.property_token # "" THEN property.property_token
  ELSE "hotel-" \o ToString(nonce)

\* total_rate?.lowest || rate_per_night?.lowest || 0
TotalPrice(property) ==
  IF property.total_rate # 0 THEN property.total_rate ELSE property.rate_per_night

\* one hotel of normalizeHotelData
HotelOf(property, checkIn, checkOut, currency, nonce) ==
  LET id == HotelId(property, nonce)
      nights == calculateNights(checkIn, checkOut)
      totalPrice == TotalPrice(property)
      pricePerNight == IF nights > 0 THEN totalPrice \div nights ELSE totalPrice
  IN  [id |-> id,
       offers |-> <<[id |-> "offer-" \o id, checkIn |-> checkIn,
                     checkOut |-> checkOut,
                     price |-> [total |-> totalPrice, perNight |-> pricePerNight,
                                currency |-> currency]]>>]

\* normalizeHotelData(response, checkIn, checkOut, currency)
HotelsOf(raw, currency, entropy) ==
  [k \in 1..Len(raw.properties) |->
     HotelOf(raw.properties[k], raw.checkIn, raw.checkOut, currency, entropy[k])]

NoRaw == [kind |-> "none"]

\* a normalizeFlightData call on the response
NormFlights(entropy) ==
  /\ normRaw.kind = "flights"
  /\ Len(normRuns) < MaxRuns
  /\ normRuns' = Append(normRuns, FlightsOf(normRaw.data, "USD", entropy))
  /\ UNCHANGED normRaw
  /\ UNCHANGED <<cacheVars, searchVars, requestVars, apiVars>>

\* a normalizeHotelData call on the response
NormHotels(entropy) ==
  /\ normRaw.kind = "hotels"
  /\ Len(normRuns) < MaxRuns
  /\ normRuns' = Append(normRuns, HotelsOf(normRaw.data, "USD", entropy))
  /\ UNCHANGED normRaw
  /\ UNCHANGED <<cacheVars, searchVars, requestVars, apiVars>>

\* no response is being normalised
NormIdle ==
  /\ normRaw = NoRaw
  /\ normRuns = <<>>

(***************************************************************************)
(* GET /locations (search.controller.js, AmadeusService.searchLocations)   *)
(* and POST /recommendations/plan (generatePlan).                          *)
(***************************************************************************)
\* const POPULAR_LOCATIONS
POPULAR_LOCATIONS ==
  <<[code |-> "JFK", name |-> "John F Kennedy Intl", cityName |-> "New York", countryCode |-> "US", type |-> "AIRPORT"],
    [code |-> "LAX", name |-> "Los Angeles Intl", cityName |-> "Los Angeles", countryCode |-> "US", type |-> "AIRPORT"],
    [code |-> "LHR", name |-> "Heathrow", cityName |-> "London", countryCode |-> "GB", type |-> "AIRPORT"],
    [code |-> "CDG", name |-> "Charles de Gaulle", cityName |-> "Paris", countryCode |-> "FR", type |-> "AIRPORT"],
    [code |-> "FRA", name |-> "Frankfurt Airport", cityName |-> "Frankfurt", countryCode |-> "DE", type |-> "AIRPORT"],
    [code |-> "AMS", name |-> "Schiphol", cityName |-> "Amsterdam", countryCode |-> "NL", type |-> "AIRPORT"],
    [code |-> "BCN", name |-> "El Prat", cityName |-> "Barcelona", countryCode |-> "ES", type |-> "AIRPORT"],
    [code |-> "FCO", name |-> "Fiumicino", cityName |-> "Rome", countryCode |-> "IT", type |-> "AIRPORT"],
    [code |-> "DXB", name |-> "Dubai Intl", cityName |-> "Dubai", countryCode |-> "AE", type |-> "AIRPORT"],
    [code |-> "SIN", name |-> "Changi", cityName |-> "Singapore", countryCode |-> "SG", type |-> "AIRPORT"],
    [code |-> "HND", name |-> "Haneda", cityName |-> "Tokyo", countryCode |-> "JP", type |-> "AIRPORT"],
    [code |-> "NRT", name |-> "Narita", cityName |-> "Tokyo", countryCode |-> "JP", type |-> "AIRPORT"],
    [code |-> "SYD", name |-> "Sydney Kingsford Smith", cityName |-> "Sydney", countryCode |-> "AU", type |-> "AIRPORT"],
    [code |-> "IST", name |-> "Istanbul Airport", cityName |-> "Istanbul", countryCode |-> "TR", type |-> "AIRPORT"],
    [code |-> "MUC", name |-> "Munich Airport", cityName |-> "Munich", countryCode |-> "DE", type |-> "AIRPORT"],
    [code |-> "VIE", name |-> "Vienna Intl", cityName |-> "Vienna", countryCode |-> "AT", type |-> "AIRPORT"],
    [code |-> "ZRH", name |-> "Zurich Airport", cityName |-> "Zurich", countryCode |-> "CH", type |-> "AIRPORT"],
    [code |-> "MAD", name |-> "Barajas", cityName |-> "Madrid", countryCode |-> "ES", type |-> "AIRPORT"],
    [code |-> "LIS", name |-> "Lisbon Portela", cityName |-> "Lisbon", countryCode |-> "PT", type |-> "AIRPORT"],
    [code |-> "ATH", name |-> "Eleftherios Venizelos", cityName |-> "Athens", countryCode |-> "GR", type |-> "AIRPORT"],
    [code |-> "SOF", name |-> "Sofia Airport", cityName |-> "Sofia", countryCode |-> "BG", type |-> "AIRPORT"],
    [code |-> "BKK", name |-> "Suvarnabhumi", cityName |-> "Bangkok", countryCode |-> "TH", type |-> "AIRPORT"],
    [code |-> "HKG", name |-> "Hong Kong Intl", cityName |-> "Hong Kong", countryCode |-> "HK", type |-> "AIRPORT"],
    [code |-> "ORD", name |-> "O'Hare Intl", cityName |-> "Chicago", countryCode |-> "US", type |-> "AIRPORT"],
    [code |-> "MIA", name |-> "Miami Intl", cityName |-> "Miami", countryCode |-> "US", type |-> "AIRPORT"],
    [code |-> "SFO", name |-> "San Francisco Intl", cityName |-> "San Francisco", countryCode |-> "US", type |-> "AIRPORT"],
    [code |-> "SEA", name |-> "Seattle-Tacoma Intl", cityName |-> "Seattle", countryCode |-> "US", type |-> "AIRPORT"],
    [code |-> "BOS", name |-> "Logan Intl", cityName |-> "Boston", countryCode |-> "US", type |-> "AIRPORT"],
    [code |-> "DEN", name |-> "Denver Intl", cityName |-> "Denver", countryCode |-> "US", type |-> "AIRPORT"],
    [code |-> "YYZ", name |-> "Toronto Pearson", cityName |-> "Toronto", countryCode |-> "CA", type |-> "AIRPORT"]>>

UpperCaseLetters == "ABCDEFGHIJKLMNOPQRSTUVWXYZ"

LowerCaseLetters == "abcdefghijklmnopqrstuvwxyz"

\* one character of String.prototype.toLowerCase
LowerChar(ch) ==
  IF \E i \in 1..Len(UpperCaseLetters) : SubSeq(UpperCaseLetters, i, i) = ch
  THEN LET i == CHOOSE j \in 1..Len(UpperCaseLetters) :
                  SubSeq(UpperCaseLetters, j, j) = ch
       IN  SubSeq(LowerCaseLetters, i, i)
  ELSE ch

RECURSIVE toLowerCase(_)
\* String.prototype.toLowerCase
toLowerCase(s) ==
  IF Len(s) = 0 THEN ""
  ELSE LowerChar(SubSeq(s, 1, 1)) \o toLowerCase(SubSeq(s, 2, Len(s)))

\* String.prototype.includes
includes(s, sub) ==
  \E i \in 1..(Len(s) - Len(sub) + 1) : SubSeq(s, i, i + Len(sub) - 1) = sub

\* POPULAR_LOCATIONS.filter of the `if (!this.isConfigured())` branch:
\* cityName, code, name and countryCode
FilterUnconfigured(lowerKeyword) ==
  LET Keep(l) == \/ includes(toLowerCase(l.cityName), lowerKeyword)
                 \/ includes(toLowerCase(l.code), lowerKeyword)
                 \/ includes(toLowerCase(l.name), lowerKeyword)
                 \/ includes(toLowerCase(l.countryCode), lowerKeyword)
  IN  SelectSeq(POPULAR_LOCATIONS, Keep)

\* POPULAR_LOCATIONS.filter of the catch branch: cityName, code and name
FilterFailed(lowerKeyword) ==
  LET Keep(l) == \/ includes(toLowerCase(l.cityName), lowerKeyword)
                 \/ includes(toLowerCase(l.code), lowerKeyword)
                 \/ includes(toLowerCase(l.name), lowerKeyword)
  IN  SelectSeq(POPULAR_LOCATIONS, Keep)

\* req.query.keyword
Keywords == {"", "g", "GB", "lon"}

\* both filters for each keyword, evaluated once
LocalMatches ==
  [keyword \in Keywords |->
     [unconfigured |-> FilterUnconfigured(toLowerCase(keyword)),
      failed |-> FilterFailed(toLowerCase(keyword))]]

\* `locations:${lowerKeyword}`
LocationsKey(keyword) == "locations:" \o toLowerCase(keyword)

\* an array as a JavaScript value
Arr(list) == [kind |-> "array", n |-> list]

\* how this.request('GET', '/v1/reference-data/locations', ...) ends: it
\* rejects, or it resolves with response.data
LocationAnswers ==
  {[ok |-> FALSE, data |-> <<>>],
   [ok |-> TRUE, data |-> <<>>],
   [ok |-> TRUE,
    data |-> <<[iataCode |-> "LON", name |-> "LONDON", subType |-> "CITY",
                address |-> [cityName |-> "LONDON", countryCode |-> "GB"]],
               [iataCode |-> "LGW", name |-> "GATWICK", subType |-> "AIRPORT",
                address |-> [cityName |-> "", countryCode |-> "GB"]]>>]}

\* (response.data || []).map(loc => ({ code, name, cityName, countryCode, type }))
MapLocations(data) ==
  [k \in 1..Len(data) |->
     [code |-> data[k].iataCode,
      name |-> data[k].name,
      cityName |-> IF data[k].address.cityName # "" THEN data[k].address.cityName
                   ELSE data[k].name,
      countryCode |-> data[k].address.countryCode,
      type |-> data[k].subType]]

\* AmadeusService.isConfigured(): clientId and clientSecret are set
amadeusConfigured == clientId

NoLocations ==
  [pc |-> "idle", keyword |-> "", via |-> "none", status |-> 0, locations |-> <<>>]

\* !keyword || keyword.length < 2
BadKeyword(keyword) == keyword = "" \/ Len(keyword) < 2

\* GET /locations up to the await of the remote call: the 400, the cached
\* value, the local table when the provider is not configured, or the request
\* sent
LocRequest(keyword) ==
  /\ locReq.pc # "wait"
  /\ LET cached == CachedFor(LocationsKey(keyword))
     IN  locReq' =
           IF BadKeyword(keyword)
           THEN [pc |-> "done", keyword |-> keyword, via |-> "invalid",
                 status |-> 400, locations |-> <<>>]
           ELSE IF Truthy(cached)
           THEN [pc |-> "done", keyword |-> keyword, via |-> "cache",
                 status |-> 200, locations |-> cached.n]
           ELSE IF ~amadeusConfigured
           THEN [pc |-> "done", keyword |-> keyword, via |-> "unconfigured",
                 status |-> 200, locations |-> LocalMatches[keyword].unconfigured]
           ELSE [pc |-> "wait", keyword |-> keyword, via |-> "none",
                 status |-> 0, locations |-> <<>>]
  /\ UNCHANGED <<clientId, planReq>>
  /\ UNCHANGED normVars
  /\ UNCHANGED <<cacheVars, searchVars, requestVars>>

\* the remote call has ended: resolved, the mapped locations are cached and
\* returned; rejected, the catch filters the local table
LocResponse(answer) ==
  /\ locReq.pc = "wait"
  /\ IF answer.ok
     THEN /\ locReq' = [locReq EXCEPT !.pc = "done", !.via = "remote",
                                      !.status = 200,
                                      !.locations = MapLocations(answer.data)]
          /\ cache' = IF isCacheReady
                      THEN setCacheRows(cache, cacheReady, TRUE,
                                        LocationsKey(locReq.keyword),
                                        Arr(MapLocations(answer.data)),
                                        ttlSearch, now)
                      ELSE cache
     ELSE /\ locReq' = [locReq EXCEPT !.pc = "done", !.via = "failed",
                                      !.status = 200,
                                      !.locations =
                                         LocalMatches[locReq.keyword].failed]
          /\ UNCHANGED cache
  /\ UNCHANGED <<clientId, planReq>>
  /\ UNCHANGED normVars
  /\ UNCHANGED <<cacheReady, booted, now, lastSet, lastGet, lastOp>>
  /\ UNCHANGED <<searchVars, requestVars>>

NoPlan == [pc |-> "idle", recommendation |-> FALSE, destinationInfo |-> Null,
           status |-> 0, llm |-> "none"]

\* { organic: [], knowledge: null, relatedSearches: [] }
EmptyWebResults == Arr(<<>>)

\* one POST /recommendations/plan up to its first await: the 400 without
\* recommendation data, then the quota test
PlanRequest(recommendation) ==
  /\ planReq.pc = "idle"
  /\ planReq' =
       IF ~recommendation
       THEN [NoPlan EXCEPT !.pc = "done", !.status = 400]
       ELSE [NoPlan EXCEPT !.recommendation = TRUE,
                           !.pc = IF getRemainingSearches > 0 THEN "info"
                                  ELSE "llm"]
  /\ UNCHANGED <<clientId, locReq>>
  /\ UNCHANGED normVars
  /\ UNCHANGED <<cacheVars, searchVars, requestVars>>

\* searchDestinationInfo: one webSearch call, which returns the empty results
\* when search() throws
PlanInfo(resolves) ==
  /\ planReq.pc = "info"
  /\ LET key == WebKey
         cached == CachedFor(key)
         out == StartOutcome(key, cached, isConfigured, remainingSearches)
         resolved == out = "send" /\ resolves
     IN  /\ SearchEffects("searchapi", out, resolved, key, WebData(1))
         /\ planReq' = [planReq EXCEPT
                          !.pc = "llm",
                          !.destinationInfo =
                             IF out = "hit" THEN cached
                             ELSE IF resolved THEN WebData(1)
                             ELSE EmptyWebResults]
  /\ UNCHANGED <<clientId, locReq>>
  /\ UNCHANGED normVars
  /\ UNCHANGED <<cacheReady, booted, now, lastSet, lastGet, lastOp, apiKey, pc,
                 last>>
  /\ UNCHANGED rangeVars
  /\ UNCHANGED <<req, step, flights, hotels, smartQueries, webSearchResults,
                 analysis, response>>

\* how the chat.completions.create call of generateTravelPlan ends: it
\* resolves with a message, it rejects, or it resolves without choices
PlanAnswers == {"ok", "throw", "nochoices"}

\* generateTravelPlan logs and rethrows; generatePlan hands the error to
\* next(error), which answers err.status || 500
PlanStatus(out) == IF out = "ok" THEN 200 ELSE 500

\* the generateTravelPlan call and the response
PlanLlm(out) ==
  /\ planReq.pc = "llm"
  /\ planReq' = [planReq EXCEPT !.pc = "done", !.llm = out,
                                !.status = PlanStatus(out)]
  /\ outbound' = outbound + 1
  /\ UNCHANGED <<clientId, locReq>>
  /\ UNCHANGED normVars
  /\ UNCHANGED <<cacheVars, searchVars, rangeVars>>
  /\ UNCHANGED <<req, step, flights, hotels, smartQueries, webSearchResults,
                 analysis, response>>

\* no /locations and no /recommendations/plan request is in progress
ApiIdle ==
  /\ clientId = FALSE
  /\ locReq = NoLocations
  /\ planReq = NoPlan

\* a server that is up, with or without credentials, its quota whole, nearly
\* used up or used up
InitApi ==
  /\ cacheReady \in BOOLEAN
  /\ booted = TRUE
  /\ cache = {}
  /\ now = 0
  /\ lastSet = NoSet
  /\ lastGet = NoGet
  /\ lastOp = NoOp
  /\ apiKey \in BOOLEAN
  /\ remainingSearches \in {QuotaInit, 1, 0}
  /\ pc = [p \in Procs |-> Idle]
  /\ last = NoCall
  /\ okCalls = QuotaInit - remainingSearches
  /\ RangeIdle
  /\ RecIdle
  /\ clientId \in BOOLEAN
  /\ locReq = NoLocations
  /\ planReq = NoPlan
  /\ NormIdle

NextApi ==
  \/ \E keyword \in Keywords : LocRequest(keyword)
  \/ \E answer \in LocationAnswers : LocResponse(answer)
  \/ \E recommendation \in BOOLEAN : PlanRequest(recommendation)
  \/ \E resolves \in BOOLEAN : PlanInfo(resolves)
  \/ \E out \in PlanAnswers : PlanLlm(out)
  \/ Tick

SpecApi == InitApi /\ [][NextApi]_vars

\* one response.data of a flight search or of a hotel search, not yet normalised
InitNorm ==
  /\ cacheReady = TRUE
  /\ booted = TRUE
  /\ cache = {}
  /\ now = 0
  /\ lastSet = NoSet
  /\ lastGet = NoGet
  /\ lastOp = NoOp
  /\ apiKey = TRUE
  /\ remainingSearches = QuotaInit
  /\ pc = [p \in Procs |-> Idle]
  /\ last = NoCall
  /\ okCalls = 0
  /\ RangeIdle
  /\ RecIdle
  /\ ApiIdle
  /\ normRaw \in [kind : {"flights"}, data : RawFlightResponses]
                   \cup [kind : {"hotels"}, data : RawHotelResponses]
  /\ normRuns = <<>>

NextNorm ==
  \/ \E entropy \in Entropies : NormFlights(entropy)
  \/ \E entropy \in Entropies : NormHotels(entropy)

SpecNorm == InitNorm /\ [][NextNorm]_vars

\* one searchFlightsInRange call on a server that is up with its quota whole
InitRange ==
  /\ cacheReady = TRUE
  /\ booted = TRUE
  /\ cache = {}
  /\ now = 0
  /\ lastSet = NoSet
  /\ lastGet = NoGet
  /\ lastOp = NoOp
  /\ apiKey \in BOOLEAN
  /\ remainingSearches = QuotaInit
  /\ pc = [p \in Procs |-> Idle]
  /\ last = NoCall
  /\ okCalls = 0
  /\ world \in Worlds
  /\ service \in Services
  /\ rangeArgs \in [startDate : 0..MaxDay, endDate : {MaxDay - 1},
                    tripDuration : TripDurations]
  /\ rangePc = "call"
  /\ sampleDates = <<>>
  /\ allFlights = <<>>
  /\ priceByDate = EmptyMap
  /\ rangeResult = EmptyResult
  /\ flightCalls = 0
  /\ RecIdle
  /\ ApiIdle
  /\ NormIdle

NextRange ==
  \/ RangeStart
  \/ RangeDate
  \/ RangeFinish

SpecRange == InitRange /\ [][NextRange]_vars

\* one POST /recommendations request on a server that is up, its quota whole,
\* nearly used up or used up, and nothing cached for the request
InitRec ==
  /\ cacheReady = TRUE
  /\ booted = TRUE
  /\ cache = {}
  /\ now = 0
  /\ lastSet = NoSet
  /\ lastGet = NoGet
  /\ lastOp = NoOp
  /\ apiKey \in BOOLEAN
  /\ remainingSearches \in {QuotaInit, 1, 0}
  /\ pc = [p \in Procs |-> Idle]
  /\ last = NoCall
  /\ okCalls = QuotaInit - remainingSearches
  /\ world \in RecWorlds
  /\ service = "searchapi"
  /\ rangeArgs = NoArgs
  /\ rangePc = "idle"
  /\ sampleDates = <<>>
  /\ allFlights = <<>>
  /\ priceByDate = EmptyMap
  /\ rangeResult = EmptyResult
  /\ flightCalls = 0
  /\ req \in Requests
  /\ step = "start"
  /\ flights = <<>>
  /\ hotels = <<>>
  /\ smartQueries = 0
  /\ webSearchResults = NoWebResults
  /\ analysis = NoAnalysis
  /\ response = NoResponse
  /\ outbound = 0
  /\ ApiIdle
  /\ NormIdle

NextRec ==
  \/ RecValidate
  \/ RangeStart
  \/ RangeDate
  \/ RangeFinish
  \/ RecRange
  \/ RecFlights
  \/ \E answer \in HotelAnswers : RecHotels(answer)
  \/ \E n \in 0..3 : RecQueries(n)
  \/ \E resolves \in BOOLEAN : RecWebSearch(resolves)
  \/ \E answer \in LlmAnswers(flights, hotels) : RecAnalysis(answer)

SpecRec == InitRec /\ [][NextRec]_vars

\* the server is up: the cache initialised (or not), the key configured (or not)
InitSearch ==
  /\ cacheReady \in BOOLEAN
  /\ booted = TRUE
  /\ cache = {}
  /\ now = 0
  /\ lastSet = NoSet
  /\ lastGet = NoGet
  /\ lastOp = NoOp
  /\ apiKey \in BOOLEAN
  /\ remainingSearches = QuotaInit
  /\ pc = [p \in Procs |-> Idle]
  /\ last = NoCall
  /\ okCalls = 0
  /\ RangeIdle
  /\ RecIdle
  /\ ApiIdle
  /\ NormIdle

NextSearch ==
  \/ \E p \in Procs, k \in SearchKeys : SearchStart(p, k)
  \/ \E p \in Procs, resolved \in BOOLEAN :
       \E d \in ResponseData(pc[p].key) : SearchResponse(p, resolved, d)
  \/ SearchTick

SpecSearch == InitSearch /\ [][NextSearch]_vars

\* every awaited axios.get settles (timeout: 30000), and the event loop then
\* runs the continuation of search()
SpecSearchFair ==
  /\ SpecSearch
  /\ \A p \in Procs :
       WF_vars(\E resolved \in BOOLEAN :
                 \E d \in ResponseData(pc[p].key) : SearchResponse(p, resolved, d))

InitCache ==
  /\ cacheReady = FALSE
  /\ booted = FALSE
  /\ cache = {}
  /\ now = 0
  /\ lastSet = NoSet
  /\ lastGet = NoGet
  /\ lastOp = NoOp
  /\ apiKey = TRUE
  /\ remainingSearches = QuotaInit
  /\ pc = [p \in Procs |-> Idle]
  /\ last = NoCall
  /\ okCalls = 0
  /\ RangeIdle
  /\ RecIdle
  /\ ApiIdle
  /\ NormIdle

NextCache ==
  \/ \E dbOk \in BOOLEAN : initializeCache(dbOk)
  \/ \E k \in Keys, dbOk \in BOOLEAN : getCached(k, dbOk)
  \/ \E k \in Keys, v \in Values, ttl \in Ttls, dbOk \in BOOLEAN :
       setCache(k, v, ttl, dbOk)
  \/ \E k \in Keys, dbOk \in BOOLEAN : deleteCache(k, dbOk)
  \/ \E dbOk \in BOOLEAN : cleanupExpiredCache(dbOk)
  \/ \E dbOk \in BOOLEAN : clearAllCache(dbOk)
  \/ Tick

SpecCache == InitCache /\ [][NextCache]_vars

(***************************************************************************)
(* Claims about the cache.                                                 *)
(***************************************************************************)
\* a getCached call that read the store answered for the key of the latest
\* effective setCache call, with no write to that key since
GetAfterSet ==
  /\ cacheReady
  /\ lastSet.live
  /\ lastGet.called
  /\ lastGet.ok
  /\ lastGet.key = lastSet.key

\* what a stored value reads back as: a string whose characters are a JSON
\* document comes back parsed, every other value comes back as itself
ReadBack(v) == IF v.kind = "string" /\ v.n > 0 THEN Num(v.n) ELSE v

\* C1 as stated: for every key, value and ttl, getCached in the second of
\* the setCache call returns the value, and getCached once the clock is
\* past ttl seconds after the call returns null.
C1_AsStated ==
  GetAfterSet =>
    /\ (now = lastSet.at => lastGet.result = lastSet.value)
    /\ (now > lastSet.at + lastSet.ttl => lastGet.result = Null)

\* C1 amended: with the store working and ttl >= 1, getCached in the second of
\* the setCache call returns the value as it reads back from its stored text
\* (the value itself unless it is a string holding a JSON document, which
\* comes back parsed); for every ttl, getCached once the clock is past ttl
\* seconds after the call returns null.
C1_TtlRoundTrip ==
  GetAfterSet =>
    /\ (now = lastSet.at /\ lastSet.ttl >= 1 =>
          lastGet.result = ReadBack(lastSet.value))
    /\ (now > lastSet.at + lastSet.ttl => lastGet.result = Null)

\* C1 witness: a value set with ttl >= 1 was read back in the same second
\* (the row is in the store), or read as null after the ttl had passed with
\* its row still in the store
C1_Witness ==
  /\ GetAfterSet
  /\ lastSet.ttl >= 1
  /\ \E r \in cache : r.key = lastSet.key
  /\ now > lastSet.at + lastSet.ttl
  /\ lastGet.result = Null

\* C2 as stated: after two setCache calls of one key the store holds exactly
\* one row of the key, expiring ttl seconds after the second call, and
\* getCached returns the second value.
C2_AsStated ==
  (cacheReady /\ lastSet.live /\ lastSet.over # "none") =>
    LET rows == {r \in cache : r.key = lastSet.key}
    IN  /\ rows \subseteq {[key |-> lastSet.key, value |-> ValueStr(lastSet.value),
                            expires_at |-> lastSet.at + lastSet.ttl]}
        /\ (now <= lastSet.at + lastSet.ttl => Cardinality(rows) = 1)
        /\ (GetAfterSet /\ now < lastSet.at + lastSet.ttl =>
              lastGet.result = lastSet.value)

\* C2 amended: after two setCache calls of one key the store holds exactly one
\* row of the key (until the sweep removes it, expired), holding the second
\* value's text and expiring ttl seconds after the second call, whatever the
\* first ttl was; until then getCached returns the second value as it reads
\* back from its stored text, and after that null: nothing of the first call
\* is returned.
C2_LastWriteWins ==
  (cacheReady /\ lastSet.live /\ lastSet.over # "none") =>
    LET rows == {r \in cache : r.key = lastSet.key}
    IN  /\ rows \subseteq {[key |-> lastSet.key, value |-> ValueStr(lastSet.value),
                            expires_at |-> lastSet.at + lastSet.ttl]}
        /\ (now <= lastSet.at + lastSet.ttl => Cardinality(rows) = 1)
        /\ (GetAfterSet =>
              lastGet.result = IF now < lastSet.at + lastSet.ttl
                               THEN ReadBack(lastSet.value) ELSE Null)

\* C2 witness: a second setCache call replaced another value of the same key
\* and getCached returned the second value
C2_Witness ==
  /\ GetAfterSet
  /\ lastSet.over = "other"
  /\ lastGet.result = lastSet.value
  /\ Cardinality({r \in cache : r.key = lastSet.key}) = 1

(***************************************************************************)
(* Claims about the quota of the search adapter.                           *)
(***************************************************************************)
\* C3: the counter is the initial quota of 100 less the number of resolved
\* requests (a resolved request takes exactly 1, a rejected one nothing), so
\* after exactly 100 resolved requests it is 0; and no call sends a request
\* while the counter is 0 or less: such a call ends at once, with search()
\* throwing unless the cache answers it.
C3_QuotaGate ==
  /\ remainingSearches = QuotaInit - okCalls
  /\ (okCalls = QuotaInit => getRemainingSearches = 0)
  /\ (last.out = "send" => remainingSearches > 0)

\* C3 witness: 100 requests have resolved, the counter is 0, and the web
\* search made then was refused for the quota without a request
C3_Witness ==
  /\ okCalls = QuotaInit
  /\ remainingSearches = 0
  /\ last = [key |-> WebKey, out |-> "quota", res |-> Null]
  /\ \A p \in Procs : pc[p].st = "idle"

\* the outcomes of the synchronous part of a call
StartOuts == {"empty", "hit", "notconfigured", "quota", "send"}

\* the unexpired rows of a key
Unexpired(key) == {r \in cache : r.key = key /\ r.expires_at > now}

\* C4: a web search started while its cache key has an unexpired row returns
\* the cached value, sends no request and leaves the counter (and the cache)
\* as they are, whatever the counter is.
C4_CacheHit ==
  [][(/\ last' # last
      /\ last'.out \in StartOuts
      /\ last'.key = WebKey
      /\ Unexpired(WebKey) # {})
     => (/\ last'.out = "hit"
         /\ \E r \in Unexpired(WebKey) : last'.res = JSONparse(r.value)
         /\ remainingSearches' = remainingSearches
         /\ okCalls' = okCalls
         /\ pc' = pc
         /\ cache' = cache)]_vars

\* C4 witness: with the counter at 0 a web search was answered from the cache
C4_Witness ==
  /\ remainingSearches <= 0
  /\ last.key = WebKey
  /\ last.out = "hit"
  /\ last.res \in ResponseData(WebKey)
  /\ \A p \in Procs : pc[p].st = "idle"

(***************************************************************************)
(* Claims about searchFlightsInRange.                                      *)
(***************************************************************************)
\* N: the calendar days from startDate to endDate, both included
WindowDays == rangeArgs.endDate - rangeArgs.startDate + 1

\* ceil(n / 3)
CeilThird(n) == (n + 2) \div 3

\* C5: for every startDate <= endDate, N being the days of the window, one
\* searchFlightsInRange call issues at most min(10, ceil(N/3)) searchFlights
\* calls; when startDate > endDate it issues none.
C5_SamplingBound ==
  /\ rangeArgs.startDate <= rangeArgs.endDate =>
       /\ flightCalls <= 10
       /\ flightCalls <= CeilThird(WindowDays)
  /\ rangeArgs.startDate > rangeArgs.endDate => flightCalls = 0

\* C5 witness: a range search over more than 30 days returned after ten
\* searchFlights calls
C5_Witness ==
  /\ rangePc = "done"
  /\ rangeArgs.startDate <= rangeArgs.endDate
  /\ CeilThird(WindowDays) > 10
  /\ flightCalls = 10

\* the flights searchFlights returned for a sample date, tagged by the loop
ReturnedFor(d) ==
  LET raw == world[SlotOf(d)]
      list == IF raw.ok THEN Normalized(service, raw, d) ELSE <<>>
  IN  [k \in 1..Len(list) |-> [list[k] EXCEPT !.searchDate = d]]

RECURSIVE ReturnedUpTo(_)
\* the flights returned for the first n sample dates, in the order of the
\* dates and, within a date, of the provider
ReturnedUpTo(n) ==
  IF n = 0 THEN <<>> ELSE ReturnedUpTo(n - 1) \o ReturnedFor(sampleDates[n])

\* C6: the bestDeal that searchFlightsInRange returns is a flight of the
\* aggregate priced at most as every flight returned for every sampled date;
\* among flights sharing the minimum it is the first of the aggregate
\* (earliest sampled date, then provider order); it is null exactly when no
\* sampled date returned a flight.
C6_BestDeal ==
  (rangePc = "done" /\ apiKey) =>
    LET best == rangeResult.bestDeal
        agg == rangeResult.flights
        all == ReturnedUpTo(Len(sampleDates))
    IN  /\ agg = all
        /\ (best = Null) <=> (Len(all) = 0)
        /\ Len(all) > 0 =>
             \E k \in 1..Len(agg) :
               /\ best = agg[k]
               /\ \A m \in 1..Len(all) : best.price <= all[m].price
               /\ \A m \in 1..(k - 1) : agg[m].price > best.price

\* C6 witness: a range search returned a bestDeal whose price a flight of a
\* later sampled date shares
C6_Witness ==
  /\ rangePc = "done"
  /\ rangeResult.bestDeal # Null
  /\ \E m \in 1..Len(rangeResult.flights) :
       /\ rangeResult.flights[m].price = rangeResult.bestDeal.price
       /\ rangeResult.flights[m].searchDate > rangeResult.bestDeal.searchDate
  /\ \E m \in 1..Len(rangeResult.flights) :
       rangeResult.flights[m].price > rangeResult.bestDeal.price

(***************************************************************************)
(* Claims about POST /recommendations.                                     *)
(***************************************************************************)
\* the request was answered after the analysis call threw
FellBack == step = "done" /\ analysis.out = "throw"

\* C7: when the analysis step throws, the response holds exactly
\* min(5, number of flights fetched) recommendations, the one at position i
\* (from 1) has rank i, and valueScore strictly decreases with rank.
C7_FallbackShape ==
  FellBack =>
    LET recs == response.recommendations
    IN  /\ response.status = 200
        /\ Len(recs) = Least(5, Len(flights))
        /\ \A i \in 1..Len(recs) : recs[i].rank = i
        /\ \A i \in 1..Len(recs), j \in 1..Len(recs) :
             i < j => recs[i].valueScore > recs[j].valueScore

\* C7 witness: the analysis threw with more than five flights fetched, and
\* the response holds five recommendations
C7_Witness ==
  /\ FellBack
  /\ Len(flights) > 5
  /\ Len(response.recommendations) = 5

\* C8 as stated: when the analysis step throws, the fallback recommendations
\* are ordered by ascending flight price: the flight of rank r costs at most
\* the flight of rank r + 1, in both modes, for every provider order.
C8_AsStated ==
  FellBack =>
    LET recs == response.recommendations
    IN  \A r \in 1..(Len(recs) - 1) :
          recs[r].flight.price <= recs[r + 1].flight.price

\* C9: the join keeps every recommendation of the analysis or of the
\* fallback, in the same order and number; one whose flightId (hotelId)
\* matches no fetched flight (hotel) is in the response with flight: null
\* (hotel: null), and the request ends with a success response.
C9_JoinKeepsAll ==
  (step = "done" /\ analysis.out \in {"ok", "throw"}) =>
    LET recs == analysis.recommendations
        out == response.recommendations
    IN  /\ response.status = 200
        /\ Len(out) = Len(recs)
        /\ \A k \in 1..Len(recs) :
             /\ out[k].rank = recs[k].rank
             /\ out[k].flightId = recs[k].flightId
             /\ out[k].hotelId = recs[k].hotelId
             /\ IF \E m \in 1..Len(flights) : flights[m].id = recs[k].flightId
                THEN /\ out[k].flight.id = recs[k].flightId
                     /\ \E m \in 1..Len(flights) : flights[m] = out[k].flight
                ELSE out[k].flight = Null
             /\ IF \E m \in 1..Len(hotels) : hotels[m].id = recs[k].hotelId
                THEN /\ out[k].hotel.id = recs[k].hotelId
                     /\ \E m \in 1..Len(hotels) : hotels[m] = out[k].hotel
                ELSE out[k].hotel = Null

\* C9 witness: with flights and hotels fetched, the analysis named a flight
\* that was not fetched and then one that was; the response holds both
C9_Witness ==
  /\ step = "done"
  /\ analysis.out = "ok"
  /\ Len(flights) > 0
  /\ Len(hotels) > 0
  /\ response.status = 200
  /\ Len(response.recommendations) = 2
  /\ response.recommendations[1].flightId = UnknownId
  /\ response.recommendations[1].flight = Null
  /\ response.recommendations[1].hotel = Null
  /\ response.recommendations[2].flight # Null

\* the request lacks origin, or destination, or has neither (periodStart and
\* periodEnd) nor departureDate
Invalid(r) ==
  \/ ~r.origin
  \/ ~r.destination
  \/ /\ ~(r.periodStart # NoDate /\ r.periodEnd # NoDate)
     /\ r.departureDate = NoDate

\* C10: a request that lacks origin, or destination, or has neither
\* (periodStart and periodEnd) nor departureDate ends with a 400 response;
\* before it no request goes out to a provider or to the LLM, and no step
\* of such a request changes the quota counter or the cache.
C10_Validation ==
  /\ [](Invalid(req) =>
          /\ step \in {"start", "done"}
          /\ outbound = 0
          /\ (step = "done" => response.status = 400))
  /\ [](response.status = 400 => Invalid(req) /\ outbound = 0)
  /\ [][Invalid(req) =>
          /\ cache' = cache
          /\ remainingSearches' = remainingSearches
          /\ outbound' = outbound]_vars

\* C10 witness: a request with origin and both period dates but no
\* destination was answered with 400
C10_Witness ==
  /\ step = "done"
  /\ req.origin
  /\ ~req.destination
  /\ req.periodStart # NoDate
  /\ req.periodEnd # NoDate
  /\ response.status = 400

\* C11: when the LLM analysis call throws, a validated request still ends
\* with a success response whose recommendations, insights and summary are
\* those of the local fallback generator; the failure does not reach the
\* error handler.
C11_ThrowRecovered ==
  FellBack =>
    /\ response.status = 200
    /\ response.recommendations = Join(Fallback(flights, hotels), flights, hotels)
    /\ response.insights = FallbackText(flights, hotels)
    /\ response.summary = FallbackText(flights, hotels)
    /\ \A k \in 1..Len(response.recommendations) :
         /\ response.recommendations[k].flight = flights[k]
         /\ response.recommendations[k].hotelId = FirstHotelId(hotels)

\* C11 witness: the analysis call threw with flights and hotels fetched and
\* the request was answered 200 with the fallback's summary
C11_Witness ==
  /\ FellBack
  /\ Len(flights) > 0
  /\ Len(hotels) > 0
  /\ response.status = 200
  /\ response.summary.from = "fallback"
  /\ Len(response.recommendations) > 0

\* C12 as stated: when the analysis call returns without a recommendations
\* array, the fallback is used and the request ends with a success response;
\* once flights are fetched no outcome of the analysis leads to an error
\* response.
C12_AsStated ==
  (step = "done" /\ analysis.out # "none") =>
    /\ response.status = 200
    /\ analysis.out = "malformed" =>
         response.recommendations = Join(Fallback(flights, hotels), flights, hotels)

\* C13: in every success response, meta.searchMode is 'date_range' exactly
\* when both periodStart and periodEnd were supplied (also when departureDate
\* is supplied as well) and 'specific_dates' otherwise; searchPeriod is
\* non-null exactly in date_range mode; in specific_dates mode bestDeal and
\* priceByDate are both null.
C13_SearchMode ==
  response.status = 200 =>
    /\ response.searchMode \in {"date_range", "specific_dates"}
    /\ (response.searchMode = "date_range")
         <=> (req.periodStart # NoDate /\ req.periodEnd # NoDate)
    /\ (response.searchPeriod # Null) <=> (response.searchMode = "date_range")
    /\ response.searchMode = "date_range" =>
         /\ response.searchPeriod.start = req.periodStart
         /\ response.searchPeriod.end = req.periodEnd
    /\ response.searchMode = "specific_dates" =>
         /\ response.bestDeal = Null
         /\ response.priceByDate.isNull

\* C13 witness: a request with both period dates and a departureDate was
\* answered in date_range mode, with flights found
C13_Witness ==
  /\ response.status = 200
  /\ req.periodStart # NoDate
  /\ req.periodEnd # NoDate
  /\ req.departureDate # NoDate
  /\ response.searchMode = "date_range"
  /\ response.bestDeal # Null

\* C14: in date_range mode, when a sampled date returned a flight, the
\* response has non-null searchPeriod, bestDeal and priceByDate with at least
\* one entry; bestDeal.date is a key of priceByDate, priceByDate[bestDeal.date]
\* equals bestDeal.price.total and is the minimum of all priceByDate values.
\* When no sampled date returned a flight, bestDeal and priceByDate are null.
C14_RangeResponse ==
  (response.status = 200 /\ response.searchMode = "date_range") =>
    LET entries == response.priceByDate.entries
        best == response.bestDeal
    IN  IF Len(allFlights) > 0
        THEN /\ response.searchPeriod # Null
             /\ best # Null
             /\ ~response.priceByDate.isNull
             /\ DOMAIN entries # {}
             /\ best.date \in DOMAIN entries
             /\ entries[best.date] = best.price
             /\ best.flight.price = best.price
             /\ \A d \in DOMAIN entries : best.price <= entries[d]
        ELSE /\ best = Null
             /\ response.priceByDate.isNull

\* C14 witness: a date_range response whose priceByDate has two dates with
\* different minimum prices
C14_Witness ==
  /\ response.status = 200
  /\ response.searchMode = "date_range"
  /\ response.bestDeal # Null
  /\ \E d \in DOMAIN response.priceByDate.entries :
       response.priceByDate.entries[d] > response.bestDeal.price

\* C15: no cache operation throws to its caller: when the cache is not ready
\* or the store fails during an operation, getCached returns null and
\* setCache, deleteCache, cleanupExpiredCache and clearAllCache return normally
\* without changing the ready flag (nor the rows), so a storage failure is
\* observed as a miss.
C15_NoThrow ==
  /\ [](lastOp # "threw")
  /\ []((lastGet.called /\ ~lastGet.ok) => lastGet.result = Null)
  /\ [][/\ booted => cacheReady' = cacheReady
        /\ lastOp' \in {"noop", "failed"} =>
             /\ cache' = cache
             /\ lastSet' = lastSet
             /\ cacheReady' = cacheReady]_vars

\* C15 witness: with the cache ready and an unexpired row stored for a key,
\* the store failed during getCached of that key, which answered null
C15_Witness ==
  /\ cacheReady
  /\ lastOp = "failed"
  /\ lastGet.called
  /\ ~lastGet.ok
  /\ lastGet.result = Null
  /\ SelectRows(cache, lastGet.key, now) # {}

\* what a configured provider returns when the payload holds no flights
NoFlightsFound ==
  normalizeFlightData([ok |-> TRUE, best_flights |-> <<>>, other_flights |-> <<>>], 1)

\* what searchFlightsInRange returns when no sampled date gave a flight
NoFlightsInRange ==
  [flights |-> <<>>, bestDeal |-> BestDeal(<<>>), priceByDate |-> EmptyMap]

\* the flight search of the request has returned
FlightsReturned == step \in {"hotels", "enrich", "web", "analysis"}

\* C16: without credentials searchFlights returns the empty sequence and
\* searchFlightsInRange returns the empty result, the same values a configured
\* provider gives when it finds no flights; while the flight search runs no
\* request is sent, no call resolves and the quota counter, the cache and the
\* outcome of the cache operations stay as they were (nothing is thrown).
C16_Unconfigured ==
  /\ []((~apiKey /\ FlightsReturned) =>
          /\ flights = <<>>
          /\ flights = NoFlightsFound
          /\ UseDateRange(req) =>
               /\ rangePc = "done"
               /\ rangeResult = EmptyResult
               /\ rangeResult = NoFlightsInRange
               /\ flightCalls = 0)
  /\ [][(~apiKey /\ step \in {"flights", "range"}) =>
          /\ outbound' = outbound
          /\ okCalls' = okCalls
          /\ remainingSearches' = remainingSearches
          /\ cache' = cache
          /\ step' \in {"range", "hotels"}]_vars

C16_Witness ==
  /\ ~apiKey
  /\ step = "hotels"
  /\ UseDateRange(req)
  /\ rangeResult = EmptyResult
  /\ flights = <<>>
  /\ outbound = 0
  /\ remainingSearches = QuotaInit
  /\ \E s \in Slots : Len(world[s].best_flights) > 0

\* C17: a GET /locations request answered from the embedded table, because
\* the provider has no credentials or because the remote call failed, is
\* answered without an error with the entries matching the keyword whatever
\* its case, and the entries are the same for both causes of the fallback.
C17_AsStated ==
  (locReq.pc = "done" /\ locReq.via \in {"unconfigured", "failed"}) =>
     /\ locReq.status = 200
     /\ locReq.locations = LocalMatches[locReq.keyword].unconfigured
     /\ locReq.locations = LocalMatches[locReq.keyword].failed

\* C18: a POST /recommendations/plan request that carries its recommendation
\* data is answered with a success response, whatever the web search and the
\* LLM did.
C18_AsStated ==
  (planReq.pc = "done" /\ planReq.recommendation) => planReq.status = 200

\* a normalised flight without its generated id
FlightFields(f) == [price |-> f.price, outbound |-> f.outbound, type |-> f.type]

\* a normalised hotel without its id and the offer id derived from it
HotelFields(h) ==
  [k \in 1..Len(h.offers) |->
     [checkIn |-> h.offers[k].checkIn, checkOut |-> h.offers[k].checkOut,
      price |-> h.offers[k].price]]

\* C19: two normalisations of the same response.data give lists of the same
\* length and order whose entries agree in every field but the generated
\* ids (prices, itinerary, segments and stops for a flight; offers and prices
\* for a hotel), and a hotel with a property token has the same id, and the
\* same offer id, both times.
C19_Idempotent ==
  \A i \in 1..Len(normRuns) : \A j \in 1..Len(normRuns) :
    /\ Len(normRuns[i]) = Len(normRuns[j])
    /\ \A k \in 1..Len(normRuns[i]) :
         IF normRaw.kind = "flights"
         THEN FlightFields(normRuns[i][k]) = FlightFields(normRuns[j][k])
         ELSE /\ HotelFields(normRuns[i][k]) = HotelFields(normRuns[j][k])
              /\ normRaw.data.properties[k].property_token # "" =>
                   normRuns[i][k] = normRuns[j][k]

C19_Witness ==
  /\ normRaw.kind = "hotels"
  /\ Len(normRuns) = 2
  /\ Len(normRuns[1]) = 2
  /\ normRaw.data.properties[1].property_token # ""
  /\ normRaw.data.properties[2].property_token = ""
  /\ normRuns[1][1].id = normRuns[2][1].id
  /\ normRuns[1][2].id # normRuns[2][2].id

\* C20 as stated: the quota counter changes only during the web searches
\* of the enrichment.
C20_AsStated ==
  [][remainingSearches' # remainingSearches => step = "web"]_vars

\* C20: the quota counter never grows; it goes down by exactly one exactly
\* when a request sent by search() resolves, for a flight, a hotel or a web
\* search alike; cache hits, unsent and rejected requests, the validation,
\* the query building, the LLM analysis and getRemainingSearches leave it
\* unchanged.
C20_QuotaFrame ==
  [][/\ remainingSearches' <= remainingSearches
     /\ (remainingSearches' # remainingSearches) <=> (okCalls' = okCalls + 1)
     /\ remainingSearches' # remainingSearches =>
          /\ remainingSearches' = remainingSearches - 1
          /\ outbound' = outbound + 1
          /\ step \in {"flights", "range", "hotels", "web"}
     /\ okCalls' # okCalls => okCalls' = okCalls + 1
     /\ step \in {"start", "enrich", "analysis", "done"} =>
          remainingSearches' = remainingSearches]_vars

C20_Witness ==
  /\ step = "enrich"
  /\ ~UseDateRange(req)
  /\ Len(flights) > 0
  /\ Len(hotels) > 0
  /\ okCalls = 2
  /\ remainingSearches = QuotaInit - 2
  /\ getRemainingSearches = QuotaInit - 2

\* C21 as stated: search calls that wait for their requests at the same time
\* lead to a state in which the counter differs from 100 minus the number of
\* requests that have resolved.
C21_AsStated ==
  (\A p \in Procs : pc[p].st = "wait") ~> (remainingSearches # QuotaInit - okCalls)

\* C21: in every interleaving of the concurrent search calls the counter is
\* exactly 100 minus the number of requests that have resolved: each resolved
\* request lowers it by one in the same step, and no other step of any
\* request changes it.
C21_ExactCount ==
  /\ [](remainingSearches = QuotaInit - okCalls)
  /\ [][/\ okCalls' = okCalls + 1 <=> remainingSearches' = remainingSearches - 1
        /\ okCalls' = okCalls <=> remainingSearches' = remainingSearches
        /\ okCalls' \in {okCalls, okCalls + 1}]_vars

\* C21 witness: of two requests waiting at the same time one has resolved
\* while the other still waits, and later both have
C21_Witness ==
  /\ okCalls = 1
  /\ remainingSearches = QuotaInit - 1
  /\ last.out = "ok"
  /\ \E p \in Procs : pc[p].st = "wait"

\* C22: the counter stays within 0..100 in every interleaving, and so does
\* what GET /search/status reports.
C22_AsStated ==
  /\ remainingSearches \in 0..QuotaInit
  /\ getRemainingSearches >= 0
  /\ okCalls <= QuotaInit

\* C23: a request in flight for a key keeps no other request from missing
\* on that key and sending its own request; every request that resolves
\* takes one unit of quota; and after a request resolves, the cache holds
\* for its key exactly the value and expiry that request wrote, whatever an
\* earlier request had written there.
C23_NoDedup ==
  /\ [](\A p \in Procs : \A k \in SearchKeys :
          (/\ pc[p].st = "idle"
           /\ ~Truthy(CachedFor(k))
           /\ isConfigured
           /\ remainingSearches > 0)
          => ENABLED (SearchStart(p, k) /\ pc'[p] = Waiting(k)))
  /\ [][okCalls' = okCalls + 1 =>
          /\ remainingSearches' = remainingSearches - 1
          /\ isCacheReady =>
               {r \in cache' : r.key = last'.key} =
                 {[key |-> last'.key, value |-> ValueStr(last'.res),
                   expires_at |-> ExpiresAt(now, CacheTTL(last'.key))]}]_vars

\* C23 witness: both requests missed on the same key and both wait for
\* their own outbound call, with the quota test passed twice
C23_Witness ==
  /\ \A p \in Procs : pc[p] = Waiting(WebKey)
  /\ ~Truthy(CachedFor(WebKey))
  /\ isCacheReady
  /\ okCalls > 0

\* C24: getCached leaves the store as it is; the sweep removes no row that
\* getCached would return; so for every key, at every moment, getCached
\* gives the same value before and after a sweep, and a value read earlier
\* in the same second still is what a read gives after any sweeps since.
C24_SweepInvisible ==
  /\ [](\A k \in Keys :
          /\ SelectRows(DeleteExpired(cache, now), k, now) = SelectRows(cache, k, now)
          /\ getCachedResult(DeleteExpired(cache, now), TRUE, TRUE, k, now)
               = getCachedResult(cache, TRUE, TRUE, k, now))
  /\ []((lastGet.called /\ lastGet.ok) =>
          lastGet.result = getCachedResult(cache, cacheReady, TRUE, lastGet.key, now))
  /\ [][(lastGet' # lastGet /\ lastGet'.called) => cache' = cache]_vars

\* C24 witness: the store holds a row the sweep would delete and a row that
\* expires this very second, which the sweep keeps and getCached does not
\* return; getCached has just answered null for the expired key
C24_Witness ==
  /\ \E r \in cache : r.expires_at < now /\ lastGet.key = r.key
  /\ \E r \in cache : r.expires_at = now
  /\ DeleteExpired(cache, now) # cache
  /\ lastGet.called
  /\ lastGet.ok
  /\ lastGet.result = Null

\* the sampled dates whose search returned at least one flight
DatesWithFlights ==
  {sampleDates[k] : k \in {m \in 1..Len(sampleDates) :
                             Len(ReturnedFor(sampleDates[m])) > 0}}

\* C25: a sampled date whose request fails neither ends searchFlightsInRange
\* nor makes it throw: each pass of the loop, failed or not, is followed by
\* the next date in order, the call returns after all sampled dates, and its
\* result holds the flights and the priceByDate entries of exactly the dates
\* that returned a flight, nothing of a failed date.
C25_PartialResults ==
  /\ [](rangePc \in {"idle", "call", "loop", "done"})
  /\ []((rangePc = "done" /\ apiKey) =>
          /\ flightCalls = Len(sampleDates)
          /\ DOMAIN rangeResult.priceByDate = DatesWithFlights
          /\ {rangeResult.flights[k].searchDate : k \in 1..Len(rangeResult.flights)}
               = DatesWithFlights
          /\ \A k \in 1..Len(sampleDates) :
               ~world[SlotOf(sampleDates[k])].ok =>
                  sampleDates[k] \notin DOMAIN rangeResult.priceByDate)
  /\ [][(rangePc = "loop" /\ flightCalls < Len(sampleDates)) =>
          /\ rangePc' = "loop"
          /\ flightCalls' = flightCalls + 1
          /\ allFlights' = allFlights \o ReturnedFor(sampleDates[flightCalls + 1])]_vars

\* C25 witness: a range search returned with the flights of a later date
\* after the request of its first sampled date was rejected
C25_Witness ==
  /\ rangePc = "done"
  /\ Len(sampleDates) >= 3
  /\ ~world[SlotOf(sampleDates[1])].ok
  /\ flightCalls = Len(sampleDates)
  /\ Len(rangeResult.flights) > 0
  /\ sampleDates[1] \notin DOMAIN rangeResult.priceByDate
  /\ sampleDates[2] \in DOMAIN rangeResult.priceByDate

\* what the result of a range search says about the sampled dates: an entry
\* of priceByDate exactly for the dates that returned a flight, its value the
\* least price returned for the date, and every searchDate a key of it
PriceByDateExact ==
  (rangePc = "done" /\ apiKey) =>
    LET entries == rangeResult.priceByDate
    IN  /\ \A k \in 1..Len(sampleDates) :
             sampleDates[k] \in DOMAIN entries <=> Len(ReturnedFor(sampleDates[k])) > 0
        /\ \A d \in DOMAIN entries :
             /\ \E k \in 1..Len(sampleDates) : sampleDates[k] = d
             /\ \E k \in 1..Len(ReturnedFor(d)) : ReturnedFor(d)[k].price = entries[d]
             /\ \A k \in 1..Len(ReturnedFor(d)) : entries[d] <= ReturnedFor(d)[k].price
        /\ \A k \in 1..Len(rangeResult.flights) :
             rangeResult.flights[k].searchDate \in DOMAIN entries

\* a pass of the loop whose request resolved leaves the response cached under
\* the key of the departure date and the return date ret
SearchedWith(ret) ==
  (/\ rangePc = "loop"
   /\ flightCalls < Len(sampleDates)
   /\ okCalls' = okCalls + 1) =>
     \E r \in cache' :
       /\ r \notin cache
       /\ r.key = FlightsKeyOf(sampleDates[flightCalls + 1], ret)

\* C26 as stated: priceByDate is exact, and the return date searched for a
\* sampled date d is d plus tripDuration days.
C26_AsStated ==
  /\ []PriceByDateExact
  /\ [][service = "searchapi" =>
          SearchedWith(sampleDates[flightCalls + 1] + rangeArgs.tripDuration)]_vars

\* C26: priceByDate is exact, and the return date searched for a sampled
\* date d is d plus tripDuration days when a tripDuration is given (not 0);
\* without one the date is searched one way, with no return date.
C26_PriceByDate ==
  /\ []PriceByDateExact
  /\ [][service = "searchapi" =>
          IF rangeArgs.tripDuration # 0
          THEN SearchedWith(sampleDates[flightCalls + 1] + rangeArgs.tripDuration)
          ELSE SearchedWith(NoDate)]_vars

\* C26 witness: a round-trip range search returned; for one date the least
\* price is not that of the first flight returned, and the response of that
\* date is cached under the return date two days on
C26_Witness ==
  /\ rangePc = "done"
  /\ service = "searchapi"
  /\ rangeArgs.tripDuration = 2
  /\ \E d \in DOMAIN rangeResult.priceByDate :
       /\ ReturnedFor(d)[1].price > rangeResult.priceByDate[d]
       /\ \E r \in cache : r.key = FlightsKeyOf(d, d + 2)

\* C27: one request makes at most two webSearch calls, for the first two
\* queries the LLM proposed, in their order; with the counter at 0 or below
\* at the enrichment decision the LLM is not asked for queries, no web
\* search is made and the response reports webSearchesUsed = 0.
C27_EnrichmentCap ==
  /\ [](/\ Len(webSearchResults.list) <= 2
        /\ Len(webSearchResults.list) <= smartQueries
        /\ \A i \in 1..Len(webSearchResults.list) : webSearchResults.list[i].query = i
        /\ response.status = 200 =>
             response.webSearchesUsed = Len(webSearchResults.list))
  /\ [][/\ (step = "enrich" /\ getRemainingSearches <= 0) =>
             /\ outbound' = outbound
             /\ smartQueries' = 0
             /\ webSearchResults' = NoWebResults
             /\ step' = "analysis"
        /\ step # "web" => webSearchResults'.list = webSearchResults.list
        /\ (step \in {"analysis", "done"} /\ webSearchResults.isNull) =>
             (response'.status = 200 => response'.webSearchesUsed = 0)]_vars

\* C27 witness: the LLM proposed three queries, two web searches were made
\* and the request was answered
C27_Witness ==
  /\ step = "done"
  /\ response.status = 200
  /\ smartQueries = 3
  /\ Len(webSearchResults.list) = 2
  /\ response.webSearchesUsed = 2

\* C28: a query whose web search failed has no entry in webSearchResults
\* and is not counted in webSearchesUsed.
C28_AsStated ==
  /\ \A i \in 1..Len(webSearchResults.list) : webSearchResults.list[i].found
  /\ response.status = 200 =>
       response.webSearchesUsed =
         Cardinality({i \in 1..Len(webSearchResults.list) :
                        webSearchResults.list[i].found})

\* the cache has nothing for the hotel search of the request
HotelsUncached ==
  ~Truthy(CachedFor(HotelsKeyOf(CheckIn(req, rangeResult.bestDeal),
                                CheckOut(req, rangeResult.bestDeal))))

C30_AsStated ==
  normRaw.kind = "hotels" =>
    \A i \in 1..Len(normRuns) :
      LET nights == calculateNights(normRaw.data.checkIn, normRaw.data.checkOut)
      IN  /\ nights >= 1
          /\ \A k \in 1..Len(normRuns[i]) :
               LET price == normRuns[i][k].offers[1].price
               IN  price.perNight * nights = price.total

=========================
